---- MODULE Spec2Model ----
(***************************************************************************)
(* Custom-field engine of obtree: field definitions, field values, the     *)
(* validator and the owner-record write paths of the four owner kinds      *)
(* (accession, plant, location, event).                                    *)
(*                                                                         *)
(* The four engines work on disjoint tables.  A behaviour of Spec follows  *)
(* the requests sent to ONE of them: Init picks the owner kind, and the    *)
(* variables hold that engine's tables.  Requests are served one at a      *)
(* time; an action is one whole request handler, and the state it leaves   *)
(* is the state of the store after the handler's last commit (a handler    *)
(* that raises loses what it did after its last commit, because the        *)
(* session is closed without commit).                                      *)
(*                                                                         *)
(* SpecConcurrent runs two field-value updates of one owner statement by   *)
(* statement (variable writers); SpecValidate applies the validator to one *)
(* definition and one candidate value (variable validation).               *)
(* SpecConcurrentCreate runs two field creations, and                      *)
(* SpecConcurrentRetype a value write against a type change of one         *)
(* event-type field, in the same way.                                      *)
(***************************************************************************)
EXTENDS Integers, Sequences, FiniteSets, Bags, TLC

VARIABLES kind, theme, scopes, fields, owners, values, writers, validation

vars == <<kind, theme, scopes, fields, owners, values, writers, validation>>

-----------------------------------------------------------------------------
(* Bounds of the model *)

MaxFields == 2
MaxOwners == 1
MaxSub == 2
MaxBatch == 2
MaxPatch == 1
MaxResend == 1
MaxClock == 2
MaxStrLen == 3
MaxNumber == 6

-----------------------------------------------------------------------------
(* Basic vocabulary *)

Kinds == {"accession", "plant", "location", "event"}

FieldType_STRING == "string"
FieldType_NUMBER == "number"
FieldType == {FieldType_STRING, FieldType_NUMBER}

\* A nullable column or an optional request attribute: None, or Some(x).
None == {}
Some(x) == {x}
The(opt) == CHOOSE x \in opt : TRUE

\* What datetime.utcnow() returns.
UtcNow == "utcnow"

\* Scope ids: projects (accession, plant), location types, event types.
ScopeIds == {1, 2}
FieldIds == 1..MaxFields
OwnerIds == 1..MaxOwners

\* Field names a request may carry, in lexicographic order.
FieldNames == <<"Height", "Notes">>
NameSet == {FieldNames[i] : i \in 1..Len(FieldNames)}
NameRank(n) == CHOOSE i \in 1..Len(FieldNames) : FieldNames[i] = n

-----------------------------------------------------------------------------
(* Python values carried by a request: a str (sequence of characters) or a *)
(* number (int / float / Decimal, here a natural number).                  *)

Str(s) == [py |-> "str", s |-> s, n |-> 0]
Num(n) == [py |-> "num", s |-> <<>>, n |-> n]

DigitChars == <<"0", "1", "2", "3", "4", "5", "6", "7", "8", "9">>
IsDigit(c) == \E i \in 1..10 : DigitChars[i] = c
DigitVal(c) == (CHOOSE i \in 1..10 : DigitChars[i] = c) - 1

RECURSIVE DecStr(_)
DecStr(n) == IF n < 10 THEN <<DigitChars[n + 1]>>
                       ELSE DecStr(n \div 10) \o <<DigitChars[(n % 10) + 1]>>

RECURSIVE ParseNat(_)
ParseNat(s) == IF Len(s) = 0 THEN 0
               ELSE ParseNat(SubSeq(s, 1, Len(s) - 1)) * 10 + DigitVal(s[Len(s)])

\* str(value)
PyStr(v) == IF v.py = "str" THEN v.s ELSE DecStr(v.n)

\* float(value): None stands for the ValueError float() raises.
PyFloat(v) == IF v.py = "num" THEN Some(v.n)
              ELSE IF Len(v.s) > 0 /\ \A i \in 1..Len(v.s) : IsDigit(v.s[i])
                   THEN Some(ParseNat(v.s))
                   ELSE None

\* Values a request may carry.
Values == {Str(<<"1">>), Num(1)}

\* One submitted entry {field_id, value}; a submission is a list of them.
Entries == [field_id : FieldIds, value : Values]
Subs == UNION {[1..n -> Entries] : n \in 0..MaxSub}

-----------------------------------------------------------------------------
(* Field definitions *)

\* Constraint columns a create / update payload may carry.
Constraints == {
    [min_length |-> None, max_length |-> None, regex_pattern |-> None,
     min_value |-> None, max_value |-> None],
    [min_length |-> Some(2), max_length |-> Some(2), regex_pattern |-> None,
     min_value |-> Some(1), max_value |-> Some(5)]}

\* Payload of a field create (ProjectAccessionFieldCreate and its siblings).
FieldCreates == [field_name : NameSet, field_type : FieldType,
                 is_required : BOOLEAN, constraints : Constraints]

\* created_at and created_by of a definition: the clock and the user of the
\* request that created it.  A later request has a later clock, and its user
\* is in general another one.
CreatedStamp == "created"
Creator == "creator"
Requester == "requester"

\* A row of a field-definition table.
NewField(scope, p) ==
    [scope |-> scope,
     field_name |-> p.field_name,
     field_type |-> p.field_type,
     is_required |-> p.is_required,
     display_order |-> 0,
     min_length |-> p.constraints.min_length,
     max_length |-> p.constraints.max_length,
     regex_pattern |-> p.constraints.regex_pattern,
     min_value |-> p.constraints.min_value,
     max_value |-> p.constraints.max_value,
     is_deleted |-> FALSE,
     deleted_at |-> None,
     created_at |-> CreatedStamp,
     created_by |-> Creator]

\* A regular expression of the fragment the model uses: literal characters,
\* "." for any character, "$" for the end of the string, and "(" which opens
\* a group; re.compile raises re.error on a group that is never closed.
PatternCompiles(pattern) == \A i \in 1..Len(pattern) : pattern[i] # "("

\* re.match(pattern, string): the pattern matches at the start of the string.
RECURSIVE re_match(_, _)
re_match(pattern, string) ==
    IF Len(pattern) = 0 THEN TRUE
    ELSE IF pattern[1] = "$" THEN Len(string) = 0 /\ re_match(Tail(pattern), string)
    ELSE IF Len(string) = 0 THEN FALSE
    ELSE /\ pattern[1] \in {".", string[1]}
         /\ re_match(Tail(pattern), Tail(string))

\* A validator whose bounds are exclusive.
validate_field_value_exclusive(field, value) ==
    IF field.field_type = FieldType_STRING
    THEN IF value.py # "str" THEN "type"
         ELSE IF field.min_length # None /\ Len(value.s) <= The(field.min_length) THEN "bound"
         ELSE IF field.max_length # None /\ Len(value.s) >= The(field.max_length) THEN "bound"
         ELSE ""
    ELSE IF value.py # "num" THEN "type"
         ELSE IF field.min_value # None /\ value.n <= The(field.min_value) THEN "bound"
         ELSE IF field.max_value # None /\ value.n >= The(field.max_value) THEN "bound"
         ELSE ""

\* validate_field_value: "" when the value is accepted, else the error.
\* "if field.regex_pattern:" skips a pattern that is None or empty.
validate_field_value(field, value) ==
    IF field.field_type = FieldType_STRING
    THEN IF value.py # "str" THEN "type"
         ELSE IF field.min_length # None /\ Len(value.s) < The(field.min_length) THEN "bound"
         ELSE IF field.max_length # None /\ Len(value.s) > The(field.max_length) THEN "bound"
         ELSE IF field.regex_pattern # None /\ Len(The(field.regex_pattern)) > 0
              THEN IF ~PatternCompiles(The(field.regex_pattern)) THEN "pattern_error"
                   ELSE IF ~re_match(The(field.regex_pattern), value.s) THEN "pattern"
                   ELSE ""
         ELSE ""
    ELSE IF value.py # "num" THEN "type"
         ELSE IF field.min_value # None /\ value.n < The(field.min_value) THEN "bound"
         ELSE IF field.max_value # None /\ value.n > The(field.max_value) THEN "bound"
         ELSE ""

-----------------------------------------------------------------------------
(* The store *)

\* The committed tables, as one value.
DB == [scopes |-> scopes, fields |-> fields, owners |-> owners, values |-> values]

NoOwner == [exists |-> FALSE, scope |-> 0]

\* A handler's outcome: the HTTP status, the cause of a failure, and the
\* committed tables it leaves.
Res(status, detail, db) == [status |-> status, detail |-> detail, db |-> db]

FieldExists(db, f) == f \in 1..Len(db.fields)

\* Ids of the field definitions of a scope, soft-deleted ones included or not.
ScopeFields(db, scope, include_deleted) ==
    {f \in 1..Len(db.fields) :
        /\ db.fields[f].scope = scope
        /\ (include_deleted \/ ~db.fields[f].is_deleted)}

\* The field-value rows of one owner.
OwnerRows(db, o) == {r \in BagToSet(db.values) : r.owner = o}

\* A replacement that forgets the DELETE and keeps the owner's earlier rows.
DeleteOwnerRows_skipped(vals, o) == vals

\* DELETE FROM <values> WHERE owner = o
DeleteOwnerRows(vals, o) ==
    LET keep == {r \in BagToSet(vals) : r.owner # o}
    IN  [r \in keep |-> vals[r]]

\* A session that ends without commit after an exception of the handler
\* keeping what it had flushed.
Rollback_flushed(committed, session) == session

\* The handler raises before db.commit(): the session is closed and the store
\* stays as the last commit left it.
Rollback(committed, session) == committed

\* The rows a session has added, as a bag.
SeqToBag(rows) ==
    [r \in {rows[i] : i \in 1..Len(rows)} |->
        Cardinality({i \in 1..Len(rows) : rows[i] = r})]

\* UniqueConstraint(owner_id, field_id) of the four field-value tables.
UniqueConstraintHolds(vals) ==
    /\ \A r \in BagToSet(vals) : vals[r] = 1
    /\ \A r1, r2 \in BagToSet(vals) :
          (r1.owner = r2.owner /\ r1.field_id = r2.field_id) => r1 = r2

\* A field-value row.
FieldValueRow(o, f, vs, vn) ==
    [owner |-> o, field_id |-> f, value_string |-> vs, value_number |-> vn]

\* The per-entry outcome of a handler's staging loop.
Staged(err, row) == [err |-> err, row |-> row]
NoRow == FieldValueRow(0, 0, None, None)

\* The loop raises at the first entry that fails.
FirstError(rs) ==
    LET bad == {i \in 1..Len(rs) : rs[i].err # ""}
    IN  IF bad = {} THEN ""
        ELSE rs[CHOOSE i \in bad : \A j \in bad : i <= j].err

StagedRows(rs) == [i \in 1..Len(rs) |-> rs[i].row]

SubmittedIds(sub) == {sub[i].field_id : i \in 1..Len(sub)}

-----------------------------------------------------------------------------
(* Accession engine: field definitions of a project *)

\* Number of attributes a patch carries.
Present(opt) == IF opt = None THEN 0 ELSE 1

\* Payload of a field update, after model_dump(exclude_unset=True): an absent
\* attribute is None.  ProjectAccessionFieldUpdate and ProjectPlantFieldUpdate
\* have no field_type attribute; EventTypeFieldUpdate has one.
FieldPatches == [field_name : {None} \cup {Some(n) : n \in NameSet},
                 field_type : {None} \cup {Some(t) : t \in FieldType},
                 is_required : {None, Some(TRUE), Some(FALSE)},
                 display_order : {None},
                 constraints : {None} \cup {Some(c) : c \in Constraints}]
EventFieldUpdates ==
    {u \in FieldPatches :
        Present(u.field_name) + Present(u.field_type)
          + Present(u.is_required) + Present(u.constraints) <= MaxPatch}
FieldUpdates == {u \in EventFieldUpdates : u.field_type = None}

\* setattr for every attribute present in model_dump(exclude_unset=True)
ApplyFieldUpdate(field, u) ==
    [field EXCEPT
        !.field_name = IF u.field_name = None THEN @ ELSE The(u.field_name),
        !.field_type = IF u.field_type = None THEN @ ELSE The(u.field_type),
        !.is_required = IF u.is_required = None THEN @ ELSE The(u.is_required),
        !.display_order = IF u.display_order = None THEN @ ELSE The(u.display_order),
        !.min_length = IF u.constraints = None THEN @ ELSE The(u.constraints).min_length,
        !.max_length = IF u.constraints = None THEN @ ELSE The(u.constraints).max_length,
        !.regex_pattern = IF u.constraints = None THEN @ ELSE The(u.constraints).regex_pattern,
        !.min_value = IF u.constraints = None THEN @ ELSE The(u.constraints).min_value,
        !.max_value = IF u.constraints = None THEN @ ELSE The(u.constraints).max_value]

SoftDelete(field) == [field EXCEPT !.is_deleted = TRUE, !.deleted_at = Some(UtcNow)]

create_project_field(db, project_id, p) ==
    IF \E f \in ScopeFields(db, project_id, FALSE) : db.fields[f].field_name = p.field_name
    THEN Res(400, "duplicate_name", db)
    ELSE Res(201, "", [db EXCEPT !.fields = Append(@, NewField(project_id, p))])

\* An update that checks the stored values of the field against the bounds
\* it is about to write, and refuses the patch when one of them fails.
update_project_field_revalidating(db, field_id, u) ==
    LET d == ApplyFieldUpdate(db.fields[field_id], u)
        fails(r) ==
            \/ /\ r.value_string # None
               /\ \/ d.min_length # None /\ Len(The(r.value_string)) < The(d.min_length)
                  \/ d.max_length # None /\ Len(The(r.value_string)) > The(d.max_length)
            \/ /\ r.value_number # None
               /\ \/ d.min_value # None /\ The(r.value_number) < The(d.min_value)
                  \/ d.max_value # None /\ The(r.value_number) > The(d.max_value)
    IN  IF \E r \in BagToSet(db.values) : r.field_id = field_id /\ fails(r)
        THEN Res(400, "bound", db)
        ELSE Res(200, "", [db EXCEPT !.fields[field_id] = d])

update_project_field(db, field_id, u) ==
    IF /\ u.field_name # None
       /\ The(u.field_name) # db.fields[field_id].field_name
       /\ \E f \in ScopeFields(db, db.fields[field_id].scope, FALSE) :
             f # field_id /\ db.fields[f].field_name = The(u.field_name)
    THEN Res(400, "duplicate_name", db)
    ELSE Res(200, "", [db EXCEPT !.fields[field_id] = ApplyFieldUpdate(@, u)])

\* A delete that removes the definition's values with it, as db.delete(field)
\* would through the relationship's cascade.
delete_project_field_cascading(db, field_id) ==
    Res(204, "", [db EXCEPT
        !.fields[field_id] = SoftDelete(@),
        !.values = [r \in {x \in BagToSet(db.values) : x.field_id # field_id} |-> db.values[r]]])

delete_project_field(db, field_id) ==
    Res(204, "", [db EXCEPT !.fields[field_id] = SoftDelete(@)])

\* validate_required_fields
validate_required_fields(db, project_id, sub) ==
    LET required_fields == {f \in ScopeFields(db, project_id, FALSE) : db.fields[f].is_required}
    IN  IF required_fields \ SubmittedIds(sub) # {} THEN "missing_required" ELSE ""

\* An HTTPException the handler raises is a 400, but for the one the
\* validator raises on a pattern that does not compile; an exception the
\* handler does not catch (float() on a non-numeric string) is a 500.
ErrorStatus(err) == IF err \in {"value_error", "pattern_error"} THEN 500 ELSE 400

\* One turn of the "create field values" loop of create_accession and
\* update_accession.
AccessionEntry(db, project_id, o, e) ==
    IF e.field_id \notin ScopeFields(db, project_id, FALSE)
    THEN Staged("unknown_field", NoRow)
    ELSE LET field == db.fields[e.field_id]
             verdict == validate_field_value(field, e.value)
         IN  IF verdict # "" THEN Staged(verdict, NoRow)
             ELSE Staged("", FieldValueRow(o, e.field_id,
                     IF field.field_type = FieldType_STRING THEN Some(PyStr(e.value)) ELSE None,
                     IF field.field_type = FieldType_NUMBER THEN Some(e.value.n) ELSE None))

\* A commit on a table that has lost its unique constraint.
CommitRows_unconstrained(base, db, newValues) ==
    Res(200, "", [db EXCEPT !.values = newValues])

\* db.commit() with added rows: the unique constraint decides.  base is the
\* store the rollback returns to, db the store the session has built.
CommitRows(base, db, newValues) ==
    IF UniqueConstraintHolds(newValues)
    THEN Res(200, "", [db EXCEPT !.values = newValues])
    ELSE Res(500, "integrity", base)

create_accession(db, o, project_id, sub) ==
    LET db1 == [db EXCEPT !.owners[o] = [exists |-> TRUE, scope |-> 0]]
    IN  IF project_id = None THEN Res(201, "", db1)
        ELSE
        LET db2 == [db1 EXCEPT !.owners[o].scope = The(project_id)]
            rs == [i \in 1..Len(sub) |-> AccessionEntry(db2, The(project_id), o, sub[i])]
        IN  IF Len(sub) = 0 THEN Res(201, "", db2)
            ELSE IF validate_required_fields(db2, The(project_id), sub) # ""
                 THEN Res(400, "missing_required", db2)
            ELSE IF FirstError(rs) # "" THEN Res(ErrorStatus(FirstError(rs)), FirstError(rs), db2)
            ELSE LET c == CommitRows(db2, db2, db2.values (+) SeqToBag(StagedRows(rs)))
                 IN  IF c.status = 200 THEN Res(201, "", c.db) ELSE c

\* project_id: None when the attribute is absent from the patch, Some(0) when
\* it is sent as null, Some(p) otherwise.  field_values: None when absent.
update_accession(db, o, project_id, field_values) ==
    LET db1 == IF project_id = None THEN db
               ELSE [db EXCEPT !.owners[o].scope = The(project_id)]
    IN  IF field_values = None THEN Res(200, "", db1)
        ELSE
        LET sub == The(field_values)
            pid == db1.owners[o].scope
            rs == [i \in 1..Len(sub) |-> AccessionEntry(db1, pid, o, sub[i])]
        IN  IF pid = 0 THEN Res(400, "no_project", db1)
            ELSE IF validate_required_fields(db1, pid, sub) # ""
                 THEN Res(400, "missing_required", db1)
            ELSE IF FirstError(rs) # ""
                 THEN Res(ErrorStatus(FirstError(rs)), FirstError(rs),
                          Rollback(db1, [db1 EXCEPT !.values = DeleteOwnerRows(@, o)]))
            ELSE CommitRows(db1, db1, DeleteOwnerRows(db1.values, o) (+) SeqToBag(StagedRows(rs)))

delete_accession(db, o) ==
    Res(204, "", [db EXCEPT !.owners[o] = NoOwner, !.values = DeleteOwnerRows(@, o)])

-----------------------------------------------------------------------------
(* Plant engine: plant field definitions of a project.  A plant's scope is *)
(* the project of its accession.                                           *)

create_project_plant_field(db, project_id, p) ==
    IF \E f \in ScopeFields(db, project_id, FALSE) : db.fields[f].field_name = p.field_name
    THEN Res(400, "duplicate_name", db)
    ELSE Res(201, "", [db EXCEPT !.fields = Append(@, NewField(project_id, p))])

update_project_plant_field(db, field_id, u) ==
    IF /\ u.field_name # None
       /\ The(u.field_name) # db.fields[field_id].field_name
       /\ \E f \in ScopeFields(db, db.fields[field_id].scope, FALSE) :
             f # field_id /\ db.fields[f].field_name = The(u.field_name)
    THEN Res(400, "duplicate_name", db)
    ELSE Res(200, "", [db EXCEPT !.fields[field_id] = ApplyFieldUpdate(@, u)])

delete_project_plant_field(db, field_id) ==
    Res(204, "", [db EXCEPT !.fields[field_id] = SoftDelete(@)])

validate_plant_required_fields(db, project_id, sub) ==
    LET required_fields == {f \in ScopeFields(db, project_id, FALSE) : db.fields[f].is_required}
    IN  IF required_fields \ SubmittedIds(sub) # {} THEN "missing_required" ELSE ""

\* One turn of the "create field values" loop of create_plant and update_plant.
PlantEntry(db, project_id, o, e) ==
    IF e.field_id \notin ScopeFields(db, project_id, FALSE)
    THEN Staged("unknown_field", NoRow)
    ELSE LET field == db.fields[e.field_id]
             verdict == validate_field_value(field, e.value)
         IN  IF verdict # "" THEN Staged(verdict, NoRow)
             ELSE Staged("", FieldValueRow(o, e.field_id,
                     IF field.field_type = FieldType_STRING THEN Some(PyStr(e.value)) ELSE None,
                     IF field.field_type = FieldType_NUMBER THEN Some(e.value.n) ELSE None))

\* A create that runs the field-value section also when the accession of the
\* plant has no project.
create_plant_validating(db, o, accession_project, sub) ==
    LET db1 == [db EXCEPT !.owners[o] = [exists |-> TRUE, scope |-> accession_project]]
        rs == [i \in 1..Len(sub) |-> PlantEntry(db1, accession_project, o, sub[i])]
    IN  IF Len(sub) = 0 THEN Res(201, "", db1)
        ELSE IF validate_plant_required_fields(db1, accession_project, sub) # ""
             THEN Res(400, "missing_required", db1)
        ELSE IF FirstError(rs) # "" THEN Res(ErrorStatus(FirstError(rs)), FirstError(rs), db1)
        ELSE LET c == CommitRows(db1, db1, db1.values (+) SeqToBag(StagedRows(rs)))
             IN  IF c.status = 200 THEN Res(201, "", c.db) ELSE c

\* accession_project: the project of the accession the plant is created in,
\* 0 when that accession has none.
create_plant(db, o, accession_project, sub) ==
    LET db1 == [db EXCEPT !.owners[o] = [exists |-> TRUE, scope |-> accession_project]]
        rs == [i \in 1..Len(sub) |-> PlantEntry(db1, accession_project, o, sub[i])]
    IN  IF Len(sub) = 0 \/ accession_project = 0 THEN Res(201, "", db1)
        ELSE IF validate_plant_required_fields(db1, accession_project, sub) # ""
             THEN Res(400, "missing_required", db1)
        ELSE IF FirstError(rs) # "" THEN Res(ErrorStatus(FirstError(rs)), FirstError(rs), db1)
        ELSE LET c == CommitRows(db1, db1, db1.values (+) SeqToBag(StagedRows(rs)))
             IN  IF c.status = 200 THEN Res(201, "", c.db) ELSE c

\* An update that does not look for the project of the plant's accession.
update_plant_unguarded(db, o, field_values) ==
    IF field_values = None THEN Res(200, "", db)
    ELSE
    LET sub == The(field_values)
        pid == db.owners[o].scope
        rs == [i \in 1..Len(sub) |-> PlantEntry(db, pid, o, sub[i])]
    IN  IF validate_plant_required_fields(db, pid, sub) # ""
        THEN Res(400, "missing_required", db)
        ELSE IF FirstError(rs) # ""
             THEN Res(ErrorStatus(FirstError(rs)), FirstError(rs),
                      Rollback(db, [db EXCEPT !.values = DeleteOwnerRows(@, o)]))
        ELSE CommitRows(db, db, DeleteOwnerRows(db.values, o) (+) SeqToBag(StagedRows(rs)))

update_plant(db, o, field_values) ==
    IF field_values = None THEN Res(200, "", db)
    ELSE
    LET sub == The(field_values)
        pid == db.owners[o].scope
        rs == [i \in 1..Len(sub) |-> PlantEntry(db, pid, o, sub[i])]
    IN  IF pid = 0 THEN Res(400, "no_project", db)
        ELSE IF validate_plant_required_fields(db, pid, sub) # ""
             THEN Res(400, "missing_required", db)
        ELSE IF FirstError(rs) # ""
             THEN Res(ErrorStatus(FirstError(rs)), FirstError(rs),
                      Rollback(db, [db EXCEPT !.values = DeleteOwnerRows(@, o)]))
        ELSE CommitRows(db, db, DeleteOwnerRows(db.values, o) (+) SeqToBag(StagedRows(rs)))

delete_plant(db, o) ==
    Res(204, "", [db EXCEPT !.owners[o] = NoOwner, !.values = DeleteOwnerRows(@, o)])

\* The project association of the plant's accession is replaced (0: removed).
update_accession_for_org(db, o, project_id) ==
    Res(200, "", [db EXCEPT !.owners[o].scope = project_id])

-----------------------------------------------------------------------------
(* Location engine: field definitions of a location type *)

\* Batch of field payloads sent with a new location type or event type.
Batches == UNION {[1..n -> FieldCreates] : n \in 0..MaxBatch}

\* LocationTypeFieldCreate as update_organization_location_type receives it:
\* a payload with an optional id.
Resends == [id : {None} \cup {Some(f) : f \in FieldIds}, p : FieldCreates]
ResendLists == UNION {[1..n -> Resends] : n \in 0..MaxResend}

\* LocationTypeField.is_locked
LocationTypeField_is_locked(db, f) ==
    Cardinality({r \in BagToSet(db.values) : r.field_id = f}) > 0

\* An overwrite that stamps the row with the user of the request, as the
\* create branch does.
Overwrite_restamped(field, p) ==
    [field EXCEPT
        !.field_name = p.field_name,
        !.field_type = p.field_type,
        !.is_required = p.is_required,
        !.display_order = 0,
        !.min_length = p.constraints.min_length,
        !.max_length = p.constraints.max_length,
        !.regex_pattern = p.constraints.regex_pattern,
        !.min_value = p.constraints.min_value,
        !.max_value = p.constraints.max_value,
        !.created_by = Requester]

\* An overwrite that brings a resent field back among the active ones.
Overwrite_reviving(field, p) ==
    [field EXCEPT
        !.field_name = p.field_name,
        !.field_type = p.field_type,
        !.is_required = p.is_required,
        !.display_order = 0,
        !.min_length = p.constraints.min_length,
        !.max_length = p.constraints.max_length,
        !.regex_pattern = p.constraints.regex_pattern,
        !.min_value = p.constraints.min_value,
        !.max_value = p.constraints.max_value,
        !.is_deleted = FALSE,
        !.deleted_at = None]

\* Every column of the payload is assigned, defaults included.
Overwrite(field, p) ==
    [field EXCEPT
        !.field_name = p.field_name,
        !.field_type = p.field_type,
        !.is_required = p.is_required,
        !.display_order = 0,
        !.min_length = p.constraints.min_length,
        !.max_length = p.constraints.max_length,
        !.regex_pattern = p.constraints.regex_pattern,
        !.min_value = p.constraints.min_value,
        !.max_value = p.constraints.max_value]

create_organization_location_type(db, lt, batch) ==
    Res(201, "", [db EXCEPT
        !.scopes[lt] = "active",
        !.fields = @ \o [i \in 1..Len(batch) |-> NewField(lt, batch[i])]])

\* fields: None when the attribute is absent.
update_organization_location_type(db, lt, fields_arg) ==
    IF fields_arg = None THEN Res(200, "", db)
    ELSE
    LET list == The(fields_arg)
        existing_field_ids == ScopeFields(db, lt, TRUE)
        update_field_ids == {The(list[i].id) : i \in {j \in 1..Len(list) : list[j].id # None}}
        IsUpdate(e) == e.id # None /\ The(e.id) \in existing_field_ids
        IsCreate(e) == ~IsUpdate(e)
        Last(f) == CHOOSE i \in 1..Len(list) :
                      /\ list[i].id = Some(f)
                      /\ \A j \in 1..Len(list) : list[j].id = Some(f) => j <= i
        marked == [f \in 1..Len(db.fields) |->
                     IF f \in existing_field_ids /\ f \notin update_field_ids
                        /\ ~db.fields[f].is_deleted
                     THEN SoftDelete(db.fields[f]) ELSE db.fields[f]]
        updated == [f \in 1..Len(db.fields) |->
                     IF f \in existing_field_ids /\ f \in update_field_ids
                     THEN Overwrite(marked[f], list[Last(f)].p) ELSE marked[f]]
        created == SelectSeq(list, IsCreate)
    IN  Res(200, "", [db EXCEPT
            !.fields = updated \o [i \in 1..Len(created) |-> NewField(lt, created[i].p)]])

delete_organization_location_type(db, lt) ==
    Res(204, "", [db EXCEPT !.scopes[lt] = "deleted"])

\* One turn of the "create field values" loop of create_location and
\* update_location.
LocationEntry(db, lt, o, e) ==
    IF e.field_id \notin ScopeFields(db, lt, FALSE)
    THEN Staged("unknown_field", NoRow)
    ELSE LET field == db.fields[e.field_id]
         IN  IF field.field_type = FieldType_STRING
             THEN Staged("", FieldValueRow(o, e.field_id, Some(PyStr(e.value)), None))
             ELSE IF PyFloat(e.value) = None THEN Staged("value_error", NoRow)
             ELSE Staged("", FieldValueRow(o, e.field_id, None, PyFloat(e.value)))

create_location(db, o, lt, sub) ==
    IF db.scopes[lt] # "active" THEN Res(404, "no_scope", db)
    ELSE
    LET active_fields == ScopeFields(db, lt, FALSE)
        required_field_ids == {f \in active_fields : db.fields[f].is_required}
        rs == [i \in 1..Len(sub) |-> LocationEntry(db, lt, o, sub[i])]
        db1 == [db EXCEPT !.owners[o] = [exists |-> TRUE, scope |-> lt]]
    IN  IF required_field_ids \ SubmittedIds(sub) # {} THEN Res(400, "missing_required", db)
        ELSE IF FirstError(rs) # "" THEN Res(ErrorStatus(FirstError(rs)), FirstError(rs), db)
        ELSE LET c == CommitRows(db, db1, db1.values (+) SeqToBag(StagedRows(rs)))
             IN  IF c.status = 200 THEN Res(201, "", c.db) ELSE c

update_location(db, o, field_values) ==
    IF field_values = None THEN Res(200, "", db)
    ELSE
    LET sub == The(field_values)
        lt == db.owners[o].scope
        rs == [i \in 1..Len(sub) |-> LocationEntry(db, lt, o, sub[i])]
    IN  IF FirstError(rs) # ""
        THEN Res(ErrorStatus(FirstError(rs)), FirstError(rs),
                 Rollback(db, [db EXCEPT !.values = DeleteOwnerRows(@, o)]))
        ELSE CommitRows(db, db, DeleteOwnerRows(db.values, o) (+) SeqToBag(StagedRows(rs)))

delete_location(db, o) ==
    Res(204, "", [db EXCEPT !.owners[o] = NoOwner, !.values = DeleteOwnerRows(@, o)])

-----------------------------------------------------------------------------
(* Event engine: field definitions of an event type *)

\* EventTypeField.is_locked: the field has at least one EventFieldValue.
EventTypeField_is_locked(db, f) ==
    Cardinality({r \in BagToSet(db.values) : r.field_id = f}) > 0

create_project_event_type(db, et, batch) ==
    Res(201, "", [db EXCEPT
        !.scopes[et] = "active",
        !.fields = @ \o [i \in 1..Len(batch) |-> NewField(et, batch[i])]])

\* A delete of the event type that removes the values of its fields with it,
\* as db.delete(event_type) would through the cascade of its relationships.
delete_project_event_type_cascading(db, et) ==
    Res(204, "", [db EXCEPT
        !.scopes[et] = "deleted",
        !.fields = [f \in 1..Len(db.fields) |->
                      IF db.fields[f].scope = et THEN SoftDelete(db.fields[f])
                                                 ELSE db.fields[f]],
        !.values = [r \in {x \in BagToSet(db.values) : db.fields[x.field_id].scope # et}
                      |-> db.values[r]]])

delete_project_event_type(db, et) ==
    Res(204, "", [db EXCEPT
        !.scopes[et] = "deleted",
        !.fields = [f \in 1..Len(db.fields) |->
                      IF db.fields[f].scope = et THEN SoftDelete(db.fields[f])
                                                 ELSE db.fields[f]]])

create_event_type_field(db, et, p) ==
    Res(201, "", [db EXCEPT !.fields = Append(@, NewField(et, p))])

update_event_type_field(db, field_id, u) ==
    IF u.field_type # None /\ EventTypeField_is_locked(db, field_id)
    THEN Res(400, "field_locked", db)
    ELSE Res(200, "", [db EXCEPT !.fields[field_id] = ApplyFieldUpdate(@, u)])

delete_event_type_field(db, field_id) ==
    Res(204, "", [db EXCEPT !.fields[field_id] = SoftDelete(@)])

\* One turn of the "create field values" loop of create_plant_event and
\* update_plant_event: the field is looked up by id and event type only.
EventEntry(db, et, o, e) ==
    IF e.field_id \notin ScopeFields(db, et, TRUE)
    THEN Staged("unknown_field", NoRow)
    ELSE LET field == db.fields[e.field_id]
         IN  IF field.field_type = FieldType_STRING
             THEN Staged("", FieldValueRow(o, e.field_id, Some(PyStr(e.value)), None))
             ELSE IF PyFloat(e.value) = None THEN Staged("value_error", NoRow)
             ELSE Staged("", FieldValueRow(o, e.field_id, None, PyFloat(e.value)))

create_plant_event(db, o, et, sub) ==
    IF db.scopes[et] = "absent" THEN Res(404, "no_scope", db)
    ELSE IF db.scopes[et] # "active" THEN Res(403, "not_accessible", db)
    ELSE
    LET required_fields == {f \in ScopeFields(db, et, FALSE) : db.fields[f].is_required}
        rs == [i \in 1..Len(sub) |-> EventEntry(db, et, o, sub[i])]
        db1 == [db EXCEPT !.owners[o] = [exists |-> TRUE, scope |-> et]]
    IN  IF required_fields \ SubmittedIds(sub) # {} THEN Res(400, "missing_required", db)
        ELSE IF FirstError(rs) # "" THEN Res(ErrorStatus(FirstError(rs)), FirstError(rs), db)
        ELSE LET c == CommitRows(db, db1, db1.values (+) SeqToBag(StagedRows(rs)))
             IN  IF c.status = 200 THEN Res(201, "", c.db) ELSE c

\* event_type_id: None when the attribute is absent from the patch.
update_plant_event(db, o, event_type_id, field_values) ==
    LET db1 == IF event_type_id = None THEN db
               ELSE [db EXCEPT !.owners[o].scope = The(event_type_id)]
        et == db1.owners[o].scope
    IN  IF db.scopes[et] = "absent" THEN Res(500, "integrity", db)
        ELSE IF field_values = None THEN Res(200, "", db1)
        ELSE
        LET sub == The(field_values)
            rs == [i \in 1..Len(sub) |-> EventEntry(db1, et, o, sub[i])]
        IN  IF FirstError(rs) # ""
            THEN Res(ErrorStatus(FirstError(rs)), FirstError(rs),
                     Rollback(db, [db1 EXCEPT !.values = DeleteOwnerRows(@, o)]))
            ELSE CommitRows(db, db1, DeleteOwnerRows(db1.values, o) (+) SeqToBag(StagedRows(rs)))

delete_plant_event(db, o) ==
    Res(204, "", [db EXCEPT !.owners[o] = NoOwner, !.values = DeleteOwnerRows(@, o)])

-----------------------------------------------------------------------------
(* Reads: lock flags, listings of definitions, projection of an owner *)

\* is_field_locked and is_plant_field_locked: count of values of the field > 0.
is_field_locked_above_one(db, field_id) ==
    Cardinality({r \in BagToSet(db.values) : r.field_id = field_id}) > 1

is_field_locked(db, field_id) ==
    Cardinality({r \in BagToSet(db.values) : r.field_id = field_id}) > 0

is_plant_field_locked(db, field_id) ==
    Cardinality({r \in BagToSet(db.values) : r.field_id = field_id}) > 0

\* ORDER BY display_order, field_name
KeyLeq(db, f, g) ==
    \/ db.fields[f].display_order < db.fields[g].display_order
    \/ /\ db.fields[f].display_order = db.fields[g].display_order
       /\ NameRank(db.fields[f].field_name) <= NameRank(db.fields[g].field_name)

\* A result list of the query over the set S of definitions; rows with equal
\* keys come in an order the database picks.
OrderedQuery(db, S) ==
    CHOOSE seq \in [1..Cardinality(S) -> S] :
        \A i, j \in 1..Cardinality(S) :
            i < j => seq[i] # seq[j] /\ KeyLeq(db, seq[i], seq[j])

get_project_fields_unfiltered(db, project_id, include_deleted) ==
    OrderedQuery(db, ScopeFields(db, project_id, TRUE))

get_project_fields(db, project_id, include_deleted) ==
    OrderedQuery(db, ScopeFields(db, project_id, include_deleted))

get_project_plant_fields(db, project_id, include_deleted) ==
    OrderedQuery(db, ScopeFields(db, project_id, include_deleted))

\* The fields list_organization_location_types and list_project_event_types
\* return for a type when include_deleted is false.
list_organization_location_types(db, lt) == ScopeFields(db, lt, FALSE)
list_project_event_types(db, et) == ScopeFields(db, et, FALSE)

\* A value property that reads the column of the other type.
FieldValue_value_swapped(db, row) ==
    IF db.fields[row.field_id].field_type = FieldType_NUMBER
    THEN IF row.value_string = None THEN None ELSE Some(Str(The(row.value_string)))
    ELSE IF row.value_number = None THEN None ELSE Some(Num(The(row.value_number)))

\* FieldValue.value: the column the current type of the definition selects.
FieldValue_value(db, row) ==
    IF db.fields[row.field_id].field_type = FieldType_STRING
    THEN IF row.value_string = None THEN None ELSE Some(Str(The(row.value_string)))
    ELSE IF row.value_number = None THEN None ELSE Some(Num(The(row.value_number)))

\* owner.field_values: the rows of the relationship, in the order the
\* database returns them.
RelationshipList(S) ==
    CHOOSE seq \in [1..Cardinality(S) -> S] :
        \A i, j \in 1..Cardinality(S) : i < j => seq[i] # seq[j]

\* The instants datetime.utcnow() may return while a response is built.
Times == 1..MaxClock

\* created_at / updated_at of a response row: the columns of the stored row
\* (written once, here instant 0), or the clock the handler reads.
StoredStamp == 0

\* A row of the field_values of a response built from the stored row r.
ValueResponse(db, r) ==
    [id |-> Some(<<r.owner, r.field_id>>),
     field_id |-> r.field_id,
     value |-> FieldValue_value(db, r),
     created_at |-> StoredStamp,
     updated_at |-> StoredStamp]

\* A row built for a definition the owner has no value of; now1 and now2 are
\* the two readings of the clock.
PlaceholderResponse(f, now1, now2) ==
    [id |-> None, field_id |-> f, value |-> None,
     created_at |-> now1, updated_at |-> now2]

\* The field_values of the response of get_accession: with a project, one
\* entry per active definition of the project (a placeholder when the
\* accession has no row for it); without one, the accession's rows.
get_accession(db, o, now1, now2) ==
    IF db.owners[o].scope # 0
    THEN LET project_fields == get_project_fields(db, db.owners[o].scope, FALSE)
         IN  [i \in 1..Len(project_fields) |->
                IF \E r \in OwnerRows(db, o) : r.field_id = project_fields[i]
                THEN ValueResponse(db,
                        CHOOSE r \in OwnerRows(db, o) : r.field_id = project_fields[i])
                ELSE PlaceholderResponse(project_fields[i], now1, now2)]
    ELSE LET rows == RelationshipList(OwnerRows(db, o))
         IN  [i \in 1..Len(rows) |-> ValueResponse(db, rows[i])]

\* The field_values of the response of get_plant: the same merge when the
\* plant's accession has a project; without one the list stays empty.
get_plant(db, o, now1, now2) ==
    IF db.owners[o].scope # 0
    THEN LET project_fields == get_project_plant_fields(db, db.owners[o].scope, FALSE)
         IN  [i \in 1..Len(project_fields) |->
                IF \E r \in OwnerRows(db, o) : r.field_id = project_fields[i]
                THEN ValueResponse(db,
                        CHOOSE r \in OwnerRows(db, o) : r.field_id = project_fields[i])
                ELSE PlaceholderResponse(project_fields[i], now1, now2)]
    ELSE <<>>

-----------------------------------------------------------------------------
(* Actions *)

\* The attributes the requests of a behaviour vary (theme); the others keep
\* the value below: the name of a field is the one of its slot, a field is
\* optional, a field has no bounds.
Themes == {"naming", "required", "bounds"}
SlotName(i) == FieldNames[((i - 1) % Len(FieldNames)) + 1]
Unbounded == [min_length |-> None, max_length |-> None, regex_pattern |-> None,
              min_value |-> None, max_value |-> None]

InTheme(p, slot) ==
    /\ theme # "naming" => p.field_name = SlotName(slot)
    /\ theme # "required" => ~p.is_required
    /\ theme # "bounds" => p.constraints = Unbounded

Creates(slot) == {p \in FieldCreates : InTheme(p, slot)}

Patches(S) ==
    {u \in S :
        /\ theme # "naming" => u.field_name = None /\ u.field_type = None
        /\ theme # "required" => u.is_required = None
        /\ theme # "bounds" => u.constraints = None}

ThemeBatches ==
    {b \in Batches : \A i \in 1..Len(b) : InTheme(b[i], Len(fields) + i)}

ThemeResendLists ==
    {l \in ResendLists :
        \A i \in 1..Len(l) :
            InTheme(l[i].p, IF l[i].id = None THEN Len(fields) + i ELSE The(l[i].id))}

\* The store after a request: what the handler's last commit left.
Install(r) ==
    \E res \in {r} :
        /\ scopes' = res.db.scopes
        /\ fields' = res.db.fields
        /\ owners' = res.db.owners
        /\ values' = res.db.values
        /\ UNCHANGED <<kind, theme, writers, validation>>

ProjectIdArgs == {None} \cup {Some(p) : p \in ScopeIds}
ProjectIdPatches == {None, Some(0)} \cup {Some(p) : p \in ScopeIds}
FieldValuesArgs == {None} \cup {Some(sub) : sub \in Subs}

CreateProjectField ==
    /\ kind = "accession"
    /\ Len(fields) < MaxFields
    /\ \E project_id \in ScopeIds, p \in Creates(Len(fields) + 1) :
          Install(create_project_field(DB, project_id, p))

UpdateProjectField ==
    /\ kind = "accession"
    /\ \E field_id \in 1..Len(fields), u \in Patches(FieldUpdates) :
          Install(update_project_field(DB, field_id, u))

DeleteProjectField ==
    /\ kind = "accession"
    /\ \E field_id \in 1..Len(fields) :
          Install(delete_project_field(DB, field_id))

CreateAccession ==
    /\ kind = "accession"
    /\ \E o \in OwnerIds :
          /\ ~owners[o].exists
          /\ \E project_id \in ProjectIdArgs, sub \in Subs :
                Install(create_accession(DB, o, project_id, sub))

UpdateAccession ==
    /\ kind = "accession"
    /\ \E o \in OwnerIds :
          /\ owners[o].exists
          /\ \E project_id \in ProjectIdPatches, fv \in FieldValuesArgs :
                Install(update_accession(DB, o, project_id, fv))

DeleteAccession ==
    /\ kind = "accession"
    /\ \E o \in OwnerIds :
          /\ owners[o].exists
          /\ Install(delete_accession(DB, o))

CreateProjectPlantField ==
    /\ kind = "plant"
    /\ Len(fields) < MaxFields
    /\ \E project_id \in ScopeIds, p \in Creates(Len(fields) + 1) :
          Install(create_project_plant_field(DB, project_id, p))

UpdateProjectPlantField ==
    /\ kind = "plant"
    /\ \E field_id \in 1..Len(fields), u \in Patches(FieldUpdates) :
          Install(update_project_plant_field(DB, field_id, u))

DeleteProjectPlantField ==
    /\ kind = "plant"
    /\ \E field_id \in 1..Len(fields) :
          Install(delete_project_plant_field(DB, field_id))

CreatePlant ==
    /\ kind = "plant"
    /\ \E o \in OwnerIds :
          /\ ~owners[o].exists
          /\ \E accession_project \in {0} \cup ScopeIds, sub \in Subs :
                Install(create_plant(DB, o, accession_project, sub))

UpdatePlant ==
    /\ kind = "plant"
    /\ \E o \in OwnerIds :
          /\ owners[o].exists
          /\ \E fv \in FieldValuesArgs :
                Install(update_plant(DB, o, fv))

DeletePlant ==
    /\ kind = "plant"
    /\ \E o \in OwnerIds :
          /\ owners[o].exists
          /\ Install(delete_plant(DB, o))

UpdateAccessionForOrg ==
    /\ kind = "plant"
    /\ \E o \in OwnerIds :
          /\ owners[o].exists
          /\ \E project_id \in {0} \cup ScopeIds :
                Install(update_accession_for_org(DB, o, project_id))

CreateOrganizationLocationType ==
    /\ kind = "location"
    /\ \E lt \in ScopeIds :
          /\ scopes[lt] = "absent"
          /\ \E batch \in ThemeBatches :
                /\ Len(fields) + Len(batch) <= MaxFields
                /\ Install(create_organization_location_type(DB, lt, batch))

UpdateOrganizationLocationType ==
    /\ kind = "location"
    /\ \E lt \in ScopeIds :
          /\ scopes[lt] # "absent"
          /\ \E fields_arg \in {None} \cup {Some(l) : l \in ThemeResendLists} :
             \E res \in {update_organization_location_type(DB, lt, fields_arg)} :
                /\ Len(res.db.fields) <= MaxFields
                /\ Install(res)

DeleteOrganizationLocationType ==
    /\ kind = "location"
    /\ \E lt \in ScopeIds :
          /\ scopes[lt] # "absent"
          /\ Install(delete_organization_location_type(DB, lt))

CreateLocation ==
    /\ kind = "location"
    /\ \E o \in OwnerIds :
          /\ ~owners[o].exists
          /\ \E lt \in ScopeIds, sub \in Subs :
                Install(create_location(DB, o, lt, sub))

UpdateLocation ==
    /\ kind = "location"
    /\ \E o \in OwnerIds :
          /\ owners[o].exists
          /\ \E fv \in FieldValuesArgs :
                Install(update_location(DB, o, fv))

DeleteLocation ==
    /\ kind = "location"
    /\ \E o \in OwnerIds :
          /\ owners[o].exists
          /\ Install(delete_location(DB, o))

CreateProjectEventType ==
    /\ kind = "event"
    /\ \E et \in ScopeIds :
          /\ scopes[et] = "absent"
          /\ \E batch \in ThemeBatches :
                /\ Len(fields) + Len(batch) <= MaxFields
                /\ Install(create_project_event_type(DB, et, batch))

DeleteProjectEventType ==
    /\ kind = "event"
    /\ \E et \in ScopeIds :
          /\ scopes[et] # "absent"
          /\ Install(delete_project_event_type(DB, et))

CreateEventTypeField ==
    /\ kind = "event"
    /\ Len(fields) < MaxFields
    /\ \E et \in ScopeIds :
          /\ scopes[et] # "absent"
          /\ \E p \in Creates(Len(fields) + 1) :
                Install(create_event_type_field(DB, et, p))

UpdateEventTypeField ==
    /\ kind = "event"
    /\ \E field_id \in 1..Len(fields), u \in Patches(EventFieldUpdates) :
          Install(update_event_type_field(DB, field_id, u))

DeleteEventTypeField ==
    /\ kind = "event"
    /\ \E field_id \in 1..Len(fields) :
          Install(delete_event_type_field(DB, field_id))

CreatePlantEvent ==
    /\ kind = "event"
    /\ \E o \in OwnerIds :
          /\ ~owners[o].exists
          /\ \E et \in ScopeIds, sub \in Subs :
                Install(create_plant_event(DB, o, et, sub))

UpdatePlantEvent ==
    /\ kind = "event"
    /\ \E o \in OwnerIds :
          /\ owners[o].exists
          /\ \E event_type_id \in ProjectIdArgs, fv \in FieldValuesArgs :
                Install(update_plant_event(DB, o, event_type_id, fv))

DeletePlantEvent ==
    /\ kind = "event"
    /\ \E o \in OwnerIds :
          /\ owners[o].exists
          /\ Install(delete_plant_event(DB, o))

Init ==
    /\ kind \in Kinds
    /\ theme \in Themes
    /\ scopes = IF kind \in {"accession", "plant"}
                THEN [s \in ScopeIds |-> "active"]
                ELSE [s \in ScopeIds |-> "absent"]
    /\ fields = <<>>
    /\ owners = [o \in OwnerIds |-> NoOwner]
    /\ values = EmptyBag
    /\ writers = <<>>
    /\ validation = <<>>

Next ==
    \/ CreateProjectField
    \/ UpdateProjectField
    \/ DeleteProjectField
    \/ CreateAccession
    \/ UpdateAccession
    \/ DeleteAccession
    \/ CreateProjectPlantField
    \/ UpdateProjectPlantField
    \/ DeleteProjectPlantField
    \/ CreatePlant
    \/ UpdatePlant
    \/ DeletePlant
    \/ UpdateAccessionForOrg
    \/ CreateOrganizationLocationType
    \/ UpdateOrganizationLocationType
    \/ DeleteOrganizationLocationType
    \/ CreateLocation
    \/ UpdateLocation
    \/ DeleteLocation
    \/ CreateProjectEventType
    \/ DeleteProjectEventType
    \/ CreateEventTypeField
    \/ UpdateEventTypeField
    \/ DeleteEventTypeField
    \/ CreatePlantEvent
    \/ UpdatePlantEvent
    \/ DeletePlantEvent

Spec == Init /\ [][Next]_vars

-----------------------------------------------------------------------------
(* Vocabulary of the properties: the request of the current engine *)

Succeeded(r) == r.status \in {200, 201, 204}

\* The scopes an owner can be created in.
OpenScopes == {s \in ScopeIds : scopes[s] = "active"}

\* POST of an owner into scope s with the submission sub.
CreateOwner(db, o, s, sub) ==
    CASE kind = "accession" -> create_accession(db, o, Some(s), sub)
      [] kind = "plant" -> create_plant(db, o, s, sub)
      [] kind = "location" -> create_location(db, o, s, sub)
      [] kind = "event" -> create_plant_event(db, o, s, sub)

\* The scope patches a PATCH of an owner may carry along with field values.
ScopePatches ==
    CASE kind = "accession" -> ProjectIdPatches
      [] kind = "event" -> {None} \cup {Some(s) : s \in {t \in ScopeIds : scopes[t] # "absent"}}
      [] OTHER -> {None}

\* PATCH of an owner with field_values = sub.
ReplaceValues(db, o, patch, sub) ==
    CASE kind = "accession" -> update_accession(db, o, patch, Some(sub))
      [] kind = "plant" -> update_plant(db, o, Some(sub))
      [] kind = "location" -> update_location(db, o, Some(sub))
      [] kind = "event" -> update_plant_event(db, o, patch, Some(sub))

\* Definition g as a client resends it in the field list of a location type.
ResendOf(db, g) ==
    [id |-> Some(g),
     p |-> [field_name |-> db.fields[g].field_name,
            field_type |-> db.fields[g].field_type,
            is_required |-> db.fields[g].is_required,
            constraints |-> [min_length |-> db.fields[g].min_length,
                             max_length |-> db.fields[g].max_length,
                             regex_pattern |-> db.fields[g].regex_pattern,
                             min_value |-> db.fields[g].min_value,
                             max_value |-> db.fields[g].max_value]]]

\* The field list of f's location type with f left out: every other active
\* definition of the type is resent as it stands.
ListWithout(db, f) ==
    LET others == OrderedQuery(db, ScopeFields(db, db.fields[f].scope, FALSE) \ {f})
    IN  [i \in 1..Len(others) |-> ResendOf(db, others[i])]

\* The request that soft-deletes definition f: the DELETE of the field, and
\* for a location type the update whose field list leaves f out.
SoftDeleteField(db, f) ==
    CASE kind = "accession" -> delete_project_field(db, f)
      [] kind = "plant" -> delete_project_plant_field(db, f)
      [] kind = "location" ->
            update_organization_location_type(db, db.fields[f].scope,
                                              Some(ListWithout(db, f)))
      [] kind = "event" -> delete_event_type_field(db, f)

\* The ids the listing of active definitions of scope s returns.
ActiveListing(db, s) ==
    CASE kind = "accession" ->
            {get_project_fields(db, s, FALSE)[i] :
                i \in 1..Len(get_project_fields(db, s, FALSE))}
      [] kind = "plant" ->
            {get_project_plant_fields(db, s, FALSE)[i] :
                i \in 1..Len(get_project_plant_fields(db, s, FALSE))}
      [] kind = "location" -> list_organization_location_types(db, s)
      [] kind = "event" -> list_project_event_types(db, s)

\* GET of owner o (accession, plant) with the clock read as now1, now2.
Project(db, o, now1, now2) ==
    IF kind = "accession" THEN get_accession(db, o, now1, now2)
                          ELSE get_plant(db, o, now1, now2)

\* The field ids the projection of owner o lists (accession, plant).
ProjectedIds(db, o) ==
    {Project(db, o, 1, 1)[i].field_id : i \in 1..Len(Project(db, o, 1, 1))}

HasValue(db, f) == \E r \in BagToSet(db.values) : r.field_id = f

\* Scope s has an active required definition the submission does not name.
MissingRequired(db, s, sub) ==
    \E f \in ScopeFields(db, s, FALSE) :
        db.fields[f].is_required /\ f \notin SubmittedIds(sub)

\* The causes of a failure that are a field-value validation step.
ValidationErrors == {"missing_required", "unknown_field", "type", "bound", "pattern"}

\* Row carries the submitted value v in the column of its definition's type.
Carries(db, row, v) ==
    IF db.fields[row.field_id].field_type = FieldType_STRING
    THEN row.value_string = Some(PyStr(v)) /\ row.value_number = None
    ELSE row.value_number = PyFloat(v) /\ row.value_number # None /\ row.value_string = None

-----------------------------------------------------------------------------
(* Properties *)

\* C1: while a FieldValue references definition F, no request changes F's
\* field_type.
C1_LockedTypeUnchanged ==
    [][\A f \in 1..Len(fields) :
          HasValue(DB, f) => fields'[f].field_type = fields[f].field_type]_vars

\* C2: every persisted FieldValue has exactly one of value_string and
\* value_number populated, the one the current field_type of its definition
\* selects.
C2_ColumnFollowsCurrentType ==
    \A r \in BagToSet(values) :
        IF fields[r.field_id].field_type = FieldType_STRING
        THEN r.value_string # None /\ r.value_number = None
        ELSE r.value_number # None /\ r.value_string = None

\* C3: no two active definitions of a scope have the same name.
C3_ActiveNamesUnique ==
    \A f, g \in 1..Len(fields) :
        (/\ f # g
         /\ fields[f].scope = fields[g].scope
         /\ ~fields[f].is_deleted
         /\ ~fields[g].is_deleted) => fields[f].field_name # fields[g].field_name

\* C4: an owner create or a field-value replacement whose submission leaves
\* out an active required definition of the scope fails with the
\* missing-required error and persists no FieldValue.
C4_MissingRequiredRejected ==
    \A o \in OwnerIds, sub \in Subs :
        /\ ~owners[o].exists =>
              \A s \in OpenScopes :
                  MissingRequired(DB, s, sub) =>
                      /\ CreateOwner(DB, o, s, sub).detail = "missing_required"
                      /\ CreateOwner(DB, o, s, sub).db.values = values
        /\ (owners[o].exists /\ owners[o].scope # 0) =>
              (MissingRequired(DB, owners[o].scope, sub) =>
                  /\ ReplaceValues(DB, o, None, sub).detail = "missing_required"
                  /\ ReplaceValues(DB, o, None, sub).db.values = values)

\* C5: an owner create or update that fails at a field-value validation step
\* leaves the persisted state as it was before the request.
C5_FailedValidationWritesNothing ==
    \A o \in OwnerIds, sub \in Subs :
        /\ ~owners[o].exists =>
              \A s \in OpenScopes :
                  CreateOwner(DB, o, s, sub).detail \in ValidationErrors =>
                      CreateOwner(DB, o, s, sub).db = DB
        /\ owners[o].exists =>
              \A patch \in ScopePatches :
                  ReplaceValues(DB, o, patch, sub).detail \in ValidationErrors =>
                      ReplaceValues(DB, o, patch, sub).db = DB

\* C6: there is at most one FieldValue per (owner, field) pair.
C6_OneValuePerOwnerAndField ==
    /\ \A r \in BagToSet(values) : values[r] = 1
    /\ \A r1, r2 \in BagToSet(values) :
          (r1.owner = r2.owner /\ r1.field_id = r2.field_id) => r1 = r2

\* C6 witness: an owner that already has a value is sent a replacement that
\* lists one field twice, and the commit refuses it.
C6_DuplicateSubmissionRefused ==
    \E o \in OwnerIds :
        /\ owners[o].exists
        /\ OwnerRows(DB, o) # {}
        /\ \E sub \in Subs :
              /\ Len(sub) = 2
              /\ sub[1].field_id = sub[2].field_id
              /\ \E r \in OwnerRows(DB, o) : r.field_id = sub[1].field_id
              /\ ReplaceValues(DB, o, None, sub).detail = "integrity"

\* C7: after a successful field-value update with submission S the owner's
\* FieldValues are exactly one row per field id of S, carrying the submitted
\* value; no earlier row of a field S does not mention remains.
C7_UpdateReplacesWholeSet ==
    \A o \in OwnerIds, sub \in Subs, patch \in ScopePatches :
        (owners[o].exists /\ Succeeded(ReplaceValues(DB, o, patch, sub))) =>
            LET after == ReplaceValues(DB, o, patch, sub).db
                rows == OwnerRows(after, o)
            IN  /\ {r.field_id : r \in rows} = SubmittedIds(sub)
                /\ \A r \in rows : after.values[r] = 1
                /\ \A r1, r2 \in rows : r1.field_id = r2.field_id => r1 = r2
                /\ \A i \in 1..Len(sub) :
                      \E r \in rows :
                          r.field_id = sub[i].field_id /\ Carries(after, r, sub[i].value)

\* C7 witness: an owner holding a value of a field is sent a non-empty
\* replacement that does not mention that field, and the update succeeds.
C7_UnmentionedValueReplaced ==
    \E o \in OwnerIds, sub \in Subs :
        /\ owners[o].exists
        /\ Len(sub) > 0
        /\ \E r \in OwnerRows(DB, o) : r.field_id \notin SubmittedIds(sub)
        /\ Succeeded(ReplaceValues(DB, o, None, sub))

\* C8: an owner create or update that submits a value for a field id that
\* does not exist, is soft-deleted or belongs to another scope is rejected,
\* and persists no FieldValue.
C8_UnknownFieldRejected ==
    \A o \in OwnerIds, sub \in Subs :
        /\ ~owners[o].exists =>
              \A s \in OpenScopes :
                  (SubmittedIds(sub) \ ScopeFields(DB, s, FALSE) # {}) =>
                      /\ ~Succeeded(CreateOwner(DB, o, s, sub))
                      /\ CreateOwner(DB, o, s, sub).db.values = values
        /\ (owners[o].exists /\ owners[o].scope # 0) =>
              ((SubmittedIds(sub) \ ScopeFields(DB, owners[o].scope, FALSE) # {}) =>
                  /\ ~Succeeded(ReplaceValues(DB, o, None, sub))
                  /\ ReplaceValues(DB, o, None, sub).db.values = values)

\* C9: every FieldValue an owner create or update persists passed
\* validate_field_value against its definition at the time of the write.
C9_PersistedValuesValidated ==
    \A o \in OwnerIds, sub \in Subs :
        /\ ~owners[o].exists =>
              \A s \in OpenScopes :
                  Succeeded(CreateOwner(DB, o, s, sub)) =>
                      \A i \in 1..Len(sub) :
                          /\ FieldExists(DB, sub[i].field_id)
                          /\ validate_field_value(fields[sub[i].field_id], sub[i].value) = ""
        /\ (owners[o].exists /\ owners[o].scope # 0) =>
              (Succeeded(ReplaceValues(DB, o, None, sub)) =>
                  \A i \in 1..Len(sub) :
                      /\ FieldExists(DB, sub[i].field_id)
                      /\ validate_field_value(fields[sub[i].field_id], sub[i].value) = "")

\* C10: soft-deleting a definition F that has a FieldValue changes nothing
\* but is_deleted and deleted_at of F: every
\* FieldValue stays as it was and is still read from its owner, and neither
\* the listing of active definitions nor the projection of an owner of F's
\* scope contains F any more.
C10_SoftDeleteFrame ==
    \A f \in 1..Len(fields) :
        (~fields[f].is_deleted /\ HasValue(DB, f)) =>
            LET after == SoftDeleteField(DB, f).db
            IN  /\ after.values = values
                /\ after.owners = owners
                /\ after.scopes = scopes
                /\ Len(after.fields) = Len(fields)
                /\ \A g \in 1..Len(fields) :
                      /\ after.fields[g] =
                            [fields[g] EXCEPT !.is_deleted = after.fields[g].is_deleted,
                                              !.deleted_at = after.fields[g].deleted_at]
                      /\ g # f => after.fields[g] = fields[g]
                /\ after.fields[f].is_deleted
                /\ after.fields[f].deleted_at # None
                /\ f \notin ActiveListing(after, fields[f].scope)
                /\ \A o \in OwnerIds :
                      /\ OwnerRows(after, o) = OwnerRows(DB, o)
                      /\ (/\ kind \in {"accession", "plant"}
                          /\ owners[o].exists
                          /\ owners[o].scope = fields[f].scope) => f \notin ProjectedIds(after, o)

\* C10 witness: an active definition with a value, listed and projected
\* before the delete, is soft-deleted.
C10_ValuedFieldSoftDeleted ==
    \E f \in 1..Len(fields), o \in OwnerIds :
        /\ ~fields[f].is_deleted
        /\ \E r \in OwnerRows(DB, o) : r.field_id = f
        /\ f \in ActiveListing(DB, fields[f].scope)
        /\ SoftDeleteField(DB, f).db.fields[f].is_deleted

\* A FieldValue of a soft-deleted definition, held in the current state.
HistoricalRows ==
    {r \in BagToSet(values) : fields[r.field_id].is_deleted}

\* The step is a successful field-value update of owner o.
IsReplacementOf(o) ==
    \E sub \in Subs, patch \in ScopePatches :
        /\ Succeeded(ReplaceValues(DB, o, patch, sub))
        /\ ReplaceValues(DB, o, patch, sub).db =
              [scopes |-> scopes', fields |-> fields', owners |-> owners', values |-> values']

ScopedOwners ==
    {o \in OwnerIds : kind \in {"accession", "plant"} /\ owners[o].exists /\ owners[o].scope # 0}

\* C12: for an owner with a scope the projection has exactly one row per
\* active definition of the scope and no other row, and a row has a non-null
\* value and a non-null id exactly when the owner holds a FieldValue of the
\* row's field.
C12_ProjectionComplete ==
    \A o \in ScopedOwners, now1, now2 \in Times :
        LET D == ScopeFields(DB, owners[o].scope, FALSE)
            P == Project(DB, o, now1, now2)
        IN  /\ Len(P) = Cardinality(D)
            /\ \A f \in D : Cardinality({i \in 1..Len(P) : P[i].field_id = f}) = 1
            /\ \A i \in 1..Len(P) :
                  /\ P[i].field_id \in D
                  /\ P[i].value # None <=> (\E r \in OwnerRows(DB, o) : r.field_id = P[i].field_id)
                  /\ P[i].id # None <=> (\E r \in OwnerRows(DB, o) : r.field_id = P[i].field_id)

\* C12 witness: an owner whose scope has an active definition it holds a
\* value of and one it holds none of is projected in two rows.
C12_MixedProjection ==
    \E o \in ScopedOwners :
        LET D == ScopeFields(DB, owners[o].scope, FALSE)
        IN  /\ \E f \in D : \E r \in OwnerRows(DB, o) : r.field_id = f
            /\ \E f \in D : \A r \in OwnerRows(DB, o) : r.field_id # f
            /\ Len(Project(DB, o, 1, 1)) = 2

\* The owners a GET can be sent for (accession, plant).
ProjectedOwners ==
    {o \in OwnerIds : kind \in {"accession", "plant"} /\ owners[o].exists}

\* C13: two successive projections of an owner with no write in between are
\* identical, row for row and attribute for attribute, whatever the clock
\* reads during the first call (now1, now2) and the second (now3, now4).
C13_ProjectionStable ==
    \A o \in ProjectedOwners :
        \A now1, now2, now3, now4 \in Times :
            (now1 <= now2 /\ now2 <= now3 /\ now3 <= now4) =>
                Project(DB, o, now1, now2) = Project(DB, o, now3, now4)

\* C14: for an owner with no scope association the projection is exactly the
\* owner's stored FieldValues, one row per stored value, and has no
\* placeholder row.
C14_UnscopedProjectionIsStoredValues ==
    \A o \in ProjectedOwners :
        owners[o].scope = 0 =>
            \A now1, now2 \in Times :
                LET P == Project(DB, o, now1, now2)
                    V == OwnerRows(DB, o)
                IN  /\ Len(P) = Cardinality(V)
                    /\ \A r \in V :
                          Cardinality({i \in 1..Len(P) : P[i] = ValueResponse(DB, r)}) = 1
                    /\ \A i \in 1..Len(P) : P[i].id # None

\* Values written for the round trip: strings of length 1 and 2 and numbers
\* at, inside and outside the bounds a definition may carry.
RoundTripValues ==
    {Str(<<"1">>), Str(<<"1", "0">>), Str(<<"a", "b">>), Num(0), Num(1), Num(5), Num(12)}

RoundTripEntries == [field_id : FieldIds, value : RoundTripValues]

\* The projection of owner o in db has a row of entry e's field whose value is
\* the value of e.
ReadsBack(db, o, e) ==
    \A now1, now2 \in Times :
        \E i \in 1..Len(Project(db, o, now1, now2)) :
            /\ Project(db, o, now1, now2)[i].field_id = e.field_id
            /\ Project(db, o, now1, now2)[i].value = Some(e.value)

\* C15: a value written for field F by a successful owner create or
\* field-value update is read back identical by the projection of the owner
\* made right after the write.
C15_RoundTrip ==
    kind \in {"accession", "plant"} =>
        \A o \in OwnerIds, e \in RoundTripEntries :
            /\ ~owners[o].exists =>
                  \A s \in OpenScopes :
                      Succeeded(CreateOwner(DB, o, s, <<e>>)) =>
                          ReadsBack(CreateOwner(DB, o, s, <<e>>).db, o, e)
            /\ owners[o].exists =>
                  \A patch \in ScopePatches :
                      Succeeded(ReplaceValues(DB, o, patch, <<e>>)) =>
                          ReadsBack(ReplaceValues(DB, o, patch, <<e>>).db, o, e)

\* C15 witness: a STRING definition with length bounds and a NUMBER definition
\* with range bounds each accept a value at a bound, written by a create or
\* by a field-value update.
C15_BoundedValueWritten ==
    /\ kind \in {"accession", "plant"}
    /\ \E f, g \in 1..Len(fields) :
          /\ fields[f].field_type = FieldType_STRING /\ fields[f].min_length # None
          /\ fields[g].field_type = FieldType_NUMBER /\ fields[g].max_value # None
          /\ \E o \in OwnerIds :
                /\ owners[o].exists
                /\ Succeeded(ReplaceValues(DB, o, None,
                       <<[field_id |-> f, value |-> Str(<<"1", "0">>)]>>))
                /\ Succeeded(ReplaceValues(DB, o, None,
                       <<[field_id |-> g, value |-> Num(5)]>>))

\* The lock flag of definition f as the engine of the behaviour computes it;
\* the event engine's flag is not part of this source.
is_locked(db, f) ==
    CASE kind = "accession" -> is_field_locked(db, f)
      [] kind = "plant" -> is_plant_field_locked(db, f)
      [] kind = "location" -> LocationTypeField_is_locked(db, f)

\* C16: in every reachable state a definition is locked exactly when at least
\* one FieldValue references it.
C16_LockedIffReferenced ==
    kind # "event" =>
        \A f \in 1..Len(fields) : is_locked(DB, f) <=> HasValue(DB, f)

\* C16 witness: a locked definition whose only value belongs to an owner, and
\* a successful field-value update of that owner that omits the definition
\* and leaves it unlocked.
C16_UnlockedByReplacement ==
    /\ kind # "event"
    /\ \E f \in 1..Len(fields), o \in OwnerIds, sub \in Subs :
          /\ owners[o].exists
          /\ is_locked(DB, f)
          /\ f \notin SubmittedIds(sub)
          /\ Succeeded(ReplaceValues(DB, o, None, sub))
          /\ ~is_locked(ReplaceValues(DB, o, None, sub).db, f)

\* The entry of a location type's field list that carries patch u for
\* definition f: the name and the type are mandatory in an entry and are
\* resent (changed when u says so); an attribute absent from u is left out of
\* the entry, and the handler then sees the default of the schema.
SparseResend(db, f, u) ==
    [id |-> Some(f),
     p |-> [field_name |-> IF u.field_name = None THEN db.fields[f].field_name
                           ELSE The(u.field_name),
            field_type |-> IF u.field_type = None THEN db.fields[f].field_type
                           ELSE The(u.field_type),
            is_required |-> IF u.is_required = None THEN FALSE ELSE The(u.is_required),
            constraints |-> IF u.constraints = None THEN Unbounded ELSE The(u.constraints)]]

\* The request that updates definition f with patch u.
UpdateDefinition(db, f, u) ==
    CASE kind = "accession" -> update_project_field(db, f, u)
      [] kind = "plant" -> update_project_plant_field(db, f, u)
      [] kind = "location" ->
            update_organization_location_type(db, db.fields[f].scope,
                Some(ListWithout(db, f) \o <<SparseResend(db, f, u)>>))
      [] kind = "event" -> update_event_type_field(db, f, u)

\* The patches the update schema of the engine admits.
DefinitionPatches ==
    IF kind \in {"accession", "plant"}
    THEN {u \in FieldPatches : u.field_type = None}
    ELSE FieldPatches

\* C17: a successful definition update leaves every attribute that is absent
\* from the patch at its previous value.
C17_AbsentAttributesKept ==
    \A f \in 1..Len(fields), u \in DefinitionPatches :
        (~fields[f].is_deleted /\ Succeeded(UpdateDefinition(DB, f, u))) =>
            LET after == UpdateDefinition(DB, f, u).db.fields[f]
            IN  /\ u.field_name = None => after.field_name = fields[f].field_name
                /\ u.field_type = None => after.field_type = fields[f].field_type
                /\ u.is_required = None => after.is_required = fields[f].is_required
                /\ u.constraints = None =>
                      /\ after.min_length = fields[f].min_length
                      /\ after.max_length = fields[f].max_length
                      /\ after.regex_pattern = fields[f].regex_pattern
                      /\ after.min_value = fields[f].min_value
                      /\ after.max_value = fields[f].max_value
                /\ after.display_order = fields[f].display_order
                /\ after.is_deleted = fields[f].is_deleted

-----------------------------------------------------------------------------
(* Two concurrent field-value updates of one owner (accession, plant).      *)
(* Each runs the statements of the handler in its own transaction: the      *)
(* required-field check, the bulk DELETE of the owner's rows, the staging   *)
(* loop and the commit that flushes the INSERTs.  The isolation level is a  *)
(* setting of the engine, which is not part of the handlers: a behaviour    *)
(* runs both transactions at one of the levels the store offers.            *)

Writers == {1, 2}
Isolations == {"read_committed", "serializable"}

\* The owner both requests update, and its project.
SharedOwner == 1
SharedProject == 1

\* The transaction has begun and not ended.
InTransaction(w) == writers[w].pc \in {"checked", "deleting", "deleted"}

\* The staging loop of writer w over its submission.
WriterStaging(w) ==
    [i \in 1..Len(writers[w].sub) |->
        IF kind = "accession"
        THEN AccessionEntry(DB, SharedProject, SharedOwner, writers[w].sub[i])
        ELSE PlantEntry(DB, SharedProject, SharedOwner, writers[w].sub[i])]

\* The committed table without the rows of the set S.
RemoveRows(vals, S) == [r \in BagToSet(vals) \ S |-> vals[r]]

\* validate_required_fields / validate_plant_required_fields: the first
\* statement of the transaction.
RequiredCheck(w) ==
    /\ writers[w].pc = "start"
    /\ LET verdict == IF kind = "accession"
                      THEN validate_required_fields(DB, SharedProject, writers[w].sub)
                      ELSE validate_plant_required_fields(DB, SharedProject, writers[w].sub)
       IN  writers' = [writers EXCEPT ![w].pc = IF verdict = "" THEN "checked" ELSE "rejected"]
    /\ UNCHANGED <<kind, theme, scopes, fields, owners, values, validation>>

\* The DELETE statement starts: it sees the committed rows of the owner.
DeleteStart(w) ==
    /\ writers[w].pc = "checked"
    /\ writers' = [writers EXCEPT ![w].pc = "deleting",
                                  ![w].snapshot = OwnerRows(DB, SharedOwner)]
    /\ UNCHANGED <<kind, theme, scopes, fields, owners, values, validation>>

\* The DELETE statement ends.  It waits while another open transaction has
\* deleted a row it saw; a row that a transaction committed in the meantime
\* has removed is skipped, and the rows that transaction inserted were not
\* seen by the statement.
DeleteFinish(w) ==
    /\ writers[w].pc = "deleting"
    /\ \A v \in Writers \ {w} :
          writers[v].pc = "deleted" => writers[v].deleted \cap writers[w].snapshot = {}
    /\ writers' = [writers EXCEPT
          ![w].pc = "deleted",
          ![w].deleted = IF writers[w].missed THEN {} ELSE writers[w].snapshot]
    /\ UNCHANGED <<kind, theme, scopes, fields, owners, values, validation>>

\* The staging loop and db.commit(): an HTTPException of the loop ends the
\* transaction without commit; the flush inserts the staged rows and the
\* unique constraint or, at the serializable level, a commit of the other
\* transaction since this one began makes the commit fail.
CommitWriter(w) ==
    /\ writers[w].pc = "deleted"
    /\ LET rs == WriterStaging(w)
           newValues == RemoveRows(values, writers[w].deleted) (+) SeqToBag(StagedRows(rs))
           outcome ==
               IF FirstError(rs) # "" THEN "rejected"
               ELSE IF writers[w].isolation = "serializable" /\ writers[w].stale
                    THEN "failed"
               ELSE IF ~UniqueConstraintHolds(newValues) THEN "failed"
               ELSE "committed"
       IN  /\ values' = IF outcome = "committed" THEN newValues ELSE values
           /\ writers' = [v \in Writers |->
                 IF v = w THEN [writers[v] EXCEPT !.pc = outcome]
                 ELSE IF outcome = "committed" /\ InTransaction(v)
                      THEN [writers[v] EXCEPT
                              !.stale = TRUE,
                              !.missed = @ \/ writers[v].pc = "deleting"]
                      ELSE writers[v]]
    /\ UNCHANGED <<kind, theme, scopes, fields, owners, validation>>

\* A project with a STRING and a NUMBER definition, an owner in it whose
\* values a field-value update has left, and two updates about to run.
InitConcurrent ==
    /\ kind \in {"accession", "plant"}
    /\ theme = "required"
    /\ scopes = [s \in ScopeIds |-> "active"]
    /\ \E required \in BOOLEAN :
          fields = <<NewField(SharedProject,
                        [field_name |-> FieldNames[1], field_type |-> FieldType_STRING,
                         is_required |-> required, constraints |-> Unbounded]),
                     NewField(SharedProject,
                        [field_name |-> FieldNames[2], field_type |-> FieldType_NUMBER,
                         is_required |-> FALSE, constraints |-> Unbounded])>>
    /\ owners = [o \in OwnerIds |->
                    IF o = SharedOwner THEN [exists |-> TRUE, scope |-> SharedProject]
                    ELSE NoOwner]
    /\ \E sub \in Subs :
          LET db0 == [scopes |-> scopes, fields |-> fields, owners |-> owners,
                      values |-> EmptyBag]
              r == IF kind = "accession"
                   THEN update_accession(db0, SharedOwner, None, Some(sub))
                   ELSE update_plant(db0, SharedOwner, Some(sub))
          IN  values = r.db.values
    /\ \E level \in Isolations :
          writers \in [Writers -> [pc : {"start"}, sub : Subs, isolation : {level},
                                   snapshot : {{}}, deleted : {{}},
                                   stale : {FALSE}, missed : {FALSE}]]
    /\ validation = <<>>

NextConcurrent ==
    \/ \E w \in Writers : RequiredCheck(w)
    \/ \E w \in Writers : DeleteStart(w)
    \/ \E w \in Writers : DeleteFinish(w)
    \/ \E w \in Writers : CommitWriter(w)

SpecConcurrent == InitConcurrent /\ [][NextConcurrent]_vars

\* C18: when two concurrent field-value updates of one owner have both
\* ended and at least one has committed, the owner's committed FieldValues
\* are the submitted set of one of the writers that committed, never a
\* mixture of rows of both, and at no time does the owner hold two values of
\* one field.
C18_ConcurrentReplacementsSerialized ==
    /\ UniqueConstraintHolds(values)
    /\ (/\ \A w \in Writers : ~InTransaction(w) /\ writers[w].pc # "start"
        /\ \E w \in Writers : writers[w].pc = "committed") =>
          \E w \in Writers :
              /\ writers[w].pc = "committed"
              /\ values = SeqToBag(StagedRows(WriterStaging(w)))

-----------------------------------------------------------------------------
(* Creating one definition *)

\* The request that adds one definition with payload p to scope s: the POST
\* of the field, and for a location type the update whose field list resends
\* the active definitions and carries p without an id.
CreateDefinition(db, s, p) ==
    CASE kind = "accession" -> create_project_field(db, s, p)
      [] kind = "plant" -> create_project_plant_field(db, s, p)
      [] kind = "location" ->
            LET active == OrderedQuery(db, ScopeFields(db, s, FALSE))
            IN  update_organization_location_type(db, s,
                    Some([i \in 1..Len(active) |-> ResendOf(db, active[i])]
                         \o <<[id |-> None, p |-> p]>>))
      [] kind = "event" -> create_event_type_field(db, s, p)

\* Scope s has an active definition named n.
ActiveNameTaken(db, s, n) ==
    \E f \in ScopeFields(db, s, FALSE) : db.fields[f].field_name = n

\* C19: creating a definition named N in scope S is rejected, and leaves the
\* definitions as they were, exactly when S has an active definition named N;
\* otherwise (a soft-deleted N included) the create succeeds and adds one
\* active definition named N to S.
C19_CreateRejectedIffActiveName ==
    \A s \in OpenScopes, p \in FieldCreates :
        LET r == CreateDefinition(DB, s, p)
        IN  IF ActiveNameTaken(DB, s, p.field_name)
            THEN r.status = 400 /\ r.db.fields = fields
            ELSE /\ r.status < 400
                 /\ Len(r.db.fields) = Len(fields) + 1
                 /\ SubSeq(r.db.fields, 1, Len(fields)) = fields
                 /\ r.db.fields[Len(fields) + 1].scope = s
                 /\ r.db.fields[Len(fields) + 1].field_name = p.field_name
                 /\ ~r.db.fields[Len(fields) + 1].is_deleted

-----------------------------------------------------------------------------
(* The validator on its own: one definition, one candidate value *)

\* Candidate values: every string over two characters up to MaxStrLen
\* characters, every number up to MaxNumber.
Chars == {"1", "2"}
Strings == UNION {[1..n -> Chars] : n \in 0..MaxStrLen}
Candidates == {Str(s) : s \in Strings} \cup {Num(n) : n \in 0..MaxNumber}

\* The constraint columns of the definition.
LengthBounds == {None, Some(1), Some(2)}
ValueBounds == {None, Some(1), Some(5)}
Patterns == {None, Some(<<>>), Some(<<"1">>), Some(<<"1", "$">>),
             Some(<<".", "2">>), Some(<<"(">>)}
ConstraintSpace == [min_length : LengthBounds, max_length : LengthBounds,
                    regex_pattern : Patterns,
                    min_value : ValueBounds, max_value : ValueBounds]
Definitions ==
    {NewField(1, [field_name |-> FieldNames[1], field_type |-> t,
                  is_required |-> FALSE, constraints |-> c]) :
        t \in FieldType, c \in ConstraintSpace}

InitValidate ==
    /\ kind = "accession"
    /\ theme = "bounds"
    /\ scopes = [s \in ScopeIds |-> "active"]
    /\ fields = <<>>
    /\ owners = [o \in OwnerIds |-> NoOwner]
    /\ values = EmptyBag
    /\ writers = <<>>
    /\ validation \in [field : Definitions, value : Candidates, verdict : {"pending"}]

\* validate_field_value(field, value)
Validate ==
    /\ validation.verdict = "pending"
    /\ validation' = [validation EXCEPT
          !.verdict = validate_field_value(validation.field, validation.value)]
    /\ UNCHANGED <<kind, theme, scopes, fields, owners, values, writers>>

NextValidate == Validate

SpecValidate == InitValidate /\ [][NextValidate]_vars

\* The validator has returned or raised.
Validated == validation # <<>> /\ validation.verdict # "pending"

\* The candidate's type is the one value_kind names.
TypeMatches(d, v) ==
    \/ d.field_type = FieldType_STRING /\ v.py = "str"
    \/ d.field_type = FieldType_NUMBER /\ v.py = "num"

\* Every non-null bound of the active constraint group holds inclusively.
BoundsHold(d, v) ==
    IF d.field_type = FieldType_STRING
    THEN /\ d.min_length # None => The(d.min_length) <= Len(v.s)
         /\ d.max_length # None => Len(v.s) <= The(d.max_length)
    ELSE /\ d.min_value # None => The(d.min_value) <= v.n
         /\ d.max_value # None => v.n <= The(d.max_value)

\* A STRING definition with a non-empty pattern: the pattern compiles and
\* matches the candidate from its start.
PatternHolds(d, v) ==
    (/\ d.field_type = FieldType_STRING
     /\ d.regex_pattern # None
     /\ Len(The(d.regex_pattern)) > 0) =>
        PatternCompiles(The(d.regex_pattern)) /\ re_match(The(d.regex_pattern), v.s)

\* The definition with the constraint group value_kind does not select
\* emptied.
InactiveCleared(d) ==
    IF d.field_type = FieldType_STRING
    THEN [d EXCEPT !.min_value = None, !.max_value = None]
    ELSE [d EXCEPT !.min_length = None, !.max_length = None, !.regex_pattern = None]

\* C20 (as stated): the validator accepts exactly when the candidate's type
\* matches value_kind and every non-null bound of the active group holds
\* inclusively; the bounds of the inactive group have no effect on the result.
C20_AcceptsIffTypeAndBounds ==
    Validated =>
        /\ validation.verdict = "" <=>
              /\ TypeMatches(validation.field, validation.value)
              /\ BoundsHold(validation.field, validation.value)
        /\ validate_field_value(InactiveCleared(validation.field), validation.value)
              = validation.verdict

\* C20 (amended): the validator accepts exactly when the candidate's type
\* matches value_kind, every non-null bound of the active group holds
\* inclusively, and the non-empty pattern of a STRING definition compiles and
\* matches the candidate from its start; the inactive group has no effect.
C20_AcceptsIffTypeBoundsAndPattern ==
    Validated =>
        /\ validation.verdict = "" <=>
              /\ TypeMatches(validation.field, validation.value)
              /\ BoundsHold(validation.field, validation.value)
              /\ PatternHolds(validation.field, validation.value)
        /\ validate_field_value(InactiveCleared(validation.field), validation.value)
              = validation.verdict

\* The validator has rejected, for its pattern, a string whose length equals
\* both length bounds of its definition.
C20_PatternRejectsWithinBounds ==
    /\ Validated
    /\ validation.verdict = "pattern"
    /\ validation.field.min_length = Some(Len(validation.value.s))
    /\ validation.field.max_length = Some(Len(validation.value.s))

-----------------------------------------------------------------------------
(* Definitions are never removed *)

\* Every FieldValue references a definition that exists.
ReferentialIntegrity ==
    \A r \in BagToSet(values) : r.field_id \in 1..Len(fields)

\* The step keeps every definition, under its id, with its scope, created_at
\* and created_by.
DefinitionsKept ==
    /\ Len(fields') >= Len(fields)
    /\ \A f \in 1..Len(fields) :
          /\ fields'[f].scope = fields[f].scope
          /\ fields'[f].created_at = fields[f].created_at
          /\ fields'[f].created_by = fields[f].created_by

-----------------------------------------------------------------------------
(* A field-value update that fails after its DELETE *)

\* The failures the "create new field values" loop raises, after the prior
\* values were deleted in the session.
LoopErrors == {"unknown_field", "type", "bound", "pattern", "pattern_error", "value_error"}

\* C22: a field-value update of an owner that has FieldValues and fails in
\* the loop that follows the delete of the prior values leaves the owner's
\* committed FieldValues exactly as they were.
C22_FailedUpdateKeepsPriorValues ==
    \A o \in OwnerIds, sub \in Subs, patch \in ScopePatches :
        (/\ owners[o].exists
         /\ OwnerRows(DB, o) # {}
         /\ ReplaceValues(DB, o, patch, sub).detail \in LoopErrors) =>
            LET after == ReplaceValues(DB, o, patch, sub).db
            IN  /\ OwnerRows(after, o) = OwnerRows(DB, o)
                /\ \A r \in OwnerRows(DB, o) : after.values[r] = values[r]

\* C22 witness: an owner holds a value and is sent an update whose first
\* entry is accepted and whose second names a field the scope does not have.
C22_UpdateFailsAfterDelete ==
    \E o \in OwnerIds, sub \in Subs :
        /\ owners[o].exists
        /\ OwnerRows(DB, o) # {}
        /\ Len(sub) = 2
        /\ sub[1].field_id \in ScopeFields(DB, owners[o].scope, FALSE)
        /\ ReplaceValues(DB, o, None, sub).detail = "unknown_field"

-----------------------------------------------------------------------------
(* Renaming a definition *)

\* The patch that carries the name n and nothing else.
RenamePatch(n) ==
    [field_name |-> Some(n), field_type |-> None, is_required |-> None,
     display_order |-> None, constraints |-> None]

\* Another active definition of f's scope is named n.
NameTakenByOther(db, f, n) ==
    \E g \in ScopeFields(db, db.fields[f].scope, FALSE) :
        g # f /\ db.fields[g].field_name = n

\* C23: an update that renames definition F to N is rejected, leaving F as it
\* was, exactly when N is not F's current name and another active definition
\* of F's scope is named N; otherwise (N is F's own name, or the name of a
\* soft-deleted definition only) it succeeds and F is named N.  For the
\* definitions of every owner kind.
C23_RenameRejectedIffOtherActiveName ==
    \A f \in 1..Len(fields), n \in NameSet :
        LET r == UpdateDefinition(DB, f, RenamePatch(n))
        IN  IF n # fields[f].field_name /\ NameTakenByOther(DB, f, n)
            THEN r.status = 400 /\ r.db.fields = fields
            ELSE Succeeded(r) /\ r.db.fields[f].field_name = n

-----------------------------------------------------------------------------
(* Editing the bounds of a definition that has values *)

\* Patches that carry bounds, is_required or display_order, and neither a
\* name nor a type.  The field list of a location type is resent without
\* display_order.
BoundsPatches ==
    {u \in [field_name : {None}, field_type : {None},
            is_required : {None, Some(TRUE), Some(FALSE)},
            display_order : {None, Some(0), Some(1)},
            constraints : {None} \cup {Some(c) : c \in Constraints}] :
        kind = "location" => u.display_order = None}

\* The stored value of row r fails the current bounds of its definition.
OutOfBounds(r) ==
    LET d == fields[r.field_id]
    IN  IF d.field_type = FieldType_STRING
        THEN /\ r.value_string # None
             /\ \/ d.min_length # None /\ Len(The(r.value_string)) < The(d.min_length)
                \/ d.max_length # None /\ Len(The(r.value_string)) > The(d.max_length)
        ELSE /\ r.value_number # None
             /\ \/ d.min_value # None /\ The(r.value_number) < The(d.min_value)
                \/ d.max_value # None /\ The(r.value_number) > The(d.max_value)

\* C24: an update of a definition that has values, changing only bounds,
\* is_required or display_order, succeeds, applies the sent attributes and
\* leaves every FieldValue as it was: nothing is revalidated.
C24_BoundsEditKeepsValues ==
    \A f \in 1..Len(fields), u \in BoundsPatches :
        (~fields[f].is_deleted /\ HasValue(DB, f)) =>
            LET r == UpdateDefinition(DB, f, u)
            IN  /\ Succeeded(r)
                /\ r.db.values = values
                /\ u.constraints # None =>
                      /\ r.db.fields[f].min_length = The(u.constraints).min_length
                      /\ r.db.fields[f].max_length = The(u.constraints).max_length
                      /\ r.db.fields[f].min_value = The(u.constraints).min_value
                      /\ r.db.fields[f].max_value = The(u.constraints).max_value

\* C24 witness: in an engine that validates every value it writes, a stored
\* value is outside the current bounds of its active definition.
C24_StoredValueOutOfBounds ==
    /\ kind \in {"accession", "plant"}
    /\ \E r \in BagToSet(values) :
          /\ ~fields[r.field_id].is_deleted
          /\ OutOfBounds(r)

-----------------------------------------------------------------------------
(* Field values sent for an owner without a project *)

\* The scope patches of an update after which owner o has no project.
UnscopingPatches(o) ==
    {patch \in ScopePatches :
        \/ patch = None /\ owners[o].scope = 0
        \/ patch = Some(0)}

\* C25: update_accession and update_plant with field_values present, the
\* empty list included, for an owner whose accession has no project answer
\* 400 and leave the FieldValues as they were.
C25_ValuesWithoutProjectRejected ==
    kind \in {"accession", "plant"} =>
        \A o \in OwnerIds, sub \in Subs :
            owners[o].exists =>
                \A patch \in UnscopingPatches(o) :
                    LET r == ReplaceValues(DB, o, patch, sub)
                    IN  /\ r.status = 400
                        /\ r.detail = "no_project"
                        /\ r.db.values = values

\* C25 witness: an owner that lost its project keeps a value, and an update
\* with an empty field_values list is refused.
C25_UnscopedOwnerHoldsValue ==
    /\ kind \in {"accession", "plant"}
    /\ \E o \in OwnerIds :
          /\ owners[o].exists
          /\ owners[o].scope = 0
          /\ OwnerRows(DB, o) # {}
          /\ ReplaceValues(DB, o, None, <<>>).detail = "no_project"

-----------------------------------------------------------------------------
(* Field values sent with the create of an owner without a project *)

\* POST of an accession without project_id, or of a plant under an accession
\* that has no project, with the submission sub.
CreateUnscopedOwner(db, o, sub) ==
    IF kind = "accession" THEN create_accession(db, o, None, sub)
                          ELSE create_plant(db, o, 0, sub)

\* C26: create_accession without a project_id and create_plant under an
\* accession without a project, given a non-empty field_values list, succeed
\* and persist the owner with no FieldValue: the submission is dropped with no
\* error and no validation.
C26_UnscopedCreateDropsValues ==
    kind \in {"accession", "plant"} =>
        \A o \in OwnerIds, sub \in Subs :
            (~owners[o].exists /\ Len(sub) > 0) =>
                LET r == CreateUnscopedOwner(DB, o, sub)
                IN  /\ r.status = 201
                    /\ r.detail = ""
                    /\ r.db.owners[o].exists
                    /\ r.db.owners[o].scope = 0
                    /\ OwnerRows(r.db, o) = {}
                    /\ r.db.values = values

\* C26 witness: an owner is about to be created while a project has an
\* active required definition, so that a submission a project would refuse
\* (a required field left out, an unknown field id) is at hand.
C26_RejectableSubmissionAtHand ==
    /\ kind \in {"accession", "plant"}
    /\ \E o \in OwnerIds, sub \in Subs, s \in ScopeIds :
          /\ ~owners[o].exists
          /\ Len(sub) > 0
          /\ MissingRequired(DB, s, sub)
          /\ SubmittedIds(sub) \ ScopeFields(DB, s, FALSE) # {}
          /\ Succeeded(CreateUnscopedOwner(DB, o, sub))

-----------------------------------------------------------------------------
(* Values and the current scope of their owner *)

\* C27: every value of an accession or a plant references a definition of
\* the project its accession is associated with now, and every value of an
\* event references a field of the event's current event type.
C27_ValuesFollowOwnerScope ==
    kind \in {"accession", "plant", "event"} =>
        \A r \in BagToSet(values) :
            /\ r.field_id \in 1..Len(fields)
            /\ owners[r.owner].exists
            /\ fields[r.field_id].scope = owners[r.owner].scope

-----------------------------------------------------------------------------
(* The soft-delete flag *)

\* is_deleted and deleted_at agree on every definition.
DeletedFlagMatchesStamp ==
    \A f \in 1..Len(fields) : fields[f].is_deleted <=> fields[f].deleted_at # None

\* The step leaves every soft-deleted definition soft-deleted.
DeletedStaysDeleted ==
    \A f \in 1..Len(fields) : fields[f].is_deleted => fields'[f].is_deleted

\* C28: for every definition of every owner kind is_deleted is true exactly
\* when deleted_at is non-null, and no request sets is_deleted back to false.
C28_SoftDeleteIsFinal ==
    [](DeletedFlagMatchesStamp) /\ [][DeletedStaysDeleted]_vars

\* C28 witness: a soft-deleted definition whose update request (for a
\* location type, the field list that resends its id) is served and changes
\* its name.
C28_DeletedDefinitionUpdated ==
    \E f \in 1..Len(fields), n \in NameSet :
        /\ fields[f].is_deleted
        /\ n # fields[f].field_name
        /\ Succeeded(UpdateDefinition(DB, f, RenamePatch(n)))
        /\ UpdateDefinition(DB, f, RenamePatch(n)).db.fields[f].field_name = n
        /\ kind = "location"

-----------------------------------------------------------------------------
(* Two creates of a definition in flight                                   *)
(*                                                                         *)
(* create_project_field and create_project_plant_field run two statements  *)
(* of interest: the query for an active definition of the name, and the    *)
(* INSERT with its commit.  Neither table has a unique constraint on       *)
(* (project_id, field_name).  In SpecConcurrentCreate two requests run     *)
(* them interleaved; writers[w] holds the position and the payload of      *)
(* request w.                                                              *)

\* The payloads of the two requests.
RacingCreates ==
    {p \in FieldCreates : ~p.is_required /\ p.constraints = Unbounded}

\* What a project holds before the requests: nothing, or one definition,
\* active or soft-deleted.
SeededFields ==
    {<<>>}
    \cup {<<NewField(s, p)>> : s \in ScopeIds, p \in RacingCreates}
    \cup {<<SoftDelete(NewField(s, p))>> : s \in ScopeIds, p \in RacingCreates}

\* The existing_field query: the request goes on when no committed active
\* definition of the project has the name.
CheckFieldName(w) ==
    /\ writers[w].pc = "start"
    /\ writers' = [writers EXCEPT ![w].pc =
          IF ActiveNameTaken(DB, writers[w].project_id, writers[w].p.field_name)
          THEN "rejected" ELSE "checked"]
    /\ UNCHANGED <<kind, theme, scopes, fields, owners, values, validation>>

\* db.add(new_field) and db.commit().  At the serializable level the commit
\* fails when a definition the name query would have returned was committed
\* since the query.
CommitField(w) ==
    /\ writers[w].pc = "checked"
    /\ LET outcome == IF writers[w].isolation = "serializable" /\ writers[w].stale
                      THEN "failed" ELSE "committed"
       IN  /\ fields' = IF outcome = "committed"
                        THEN Append(fields, NewField(writers[w].project_id, writers[w].p))
                        ELSE fields
           /\ writers' = [v \in Writers |->
                 IF v = w THEN [writers[v] EXCEPT !.pc = outcome]
                 ELSE IF /\ outcome = "committed"
                         /\ writers[v].pc = "checked"
                         /\ writers[v].project_id = writers[w].project_id
                         /\ writers[v].p.field_name = writers[w].p.field_name
                      THEN [writers[v] EXCEPT !.stale = TRUE]
                      ELSE writers[v]]
    /\ UNCHANGED <<kind, theme, scopes, owners, values, validation>>

InitConcurrentCreate ==
    /\ kind \in {"accession", "plant"}
    /\ theme = "naming"
    /\ scopes = [s \in ScopeIds |-> "active"]
    /\ fields \in SeededFields
    /\ owners = [o \in OwnerIds |-> NoOwner]
    /\ values = EmptyBag
    /\ \E level \in Isolations :
          writers \in [Writers -> [pc : {"start"}, project_id : ScopeIds,
                                   p : RacingCreates, isolation : {level},
                                   stale : {FALSE}]]
    /\ validation = <<>>

NextConcurrentCreate ==
    \/ \E w \in Writers : CheckFieldName(w)
    \/ \E w \in Writers : CommitField(w)

SpecConcurrentCreate == InitConcurrentCreate /\ [][NextConcurrentCreate]_vars

\* C29: of two concurrent creates carrying the same field_name for the same
\* project at most one commits a definition, and no state holds two active
\* definitions of that name in the project.
C29_ConcurrentCreatesKeepNameUnique ==
    /\ \A w, v \in Writers :
          (/\ w # v
           /\ writers[w].project_id = writers[v].project_id
           /\ writers[w].p.field_name = writers[v].p.field_name) =>
              ~(writers[w].pc = "committed" /\ writers[v].pc = "committed")
    /\ \A f, g \in 1..Len(fields) :
          (/\ f # g
           /\ fields[f].scope = fields[g].scope
           /\ ~fields[f].is_deleted
           /\ ~fields[g].is_deleted) => fields[f].field_name # fields[g].field_name

-----------------------------------------------------------------------------
(* A value write and a type change of one event-type field in flight       *)
(*                                                                         *)
(* SpecConcurrentRetype runs create_plant_event or update_plant_event      *)
(* (request ValueWriter) against update_event_type_field with a field_type *)
(* (request TypeEditor).  The value writer reads the field definitions     *)
(* while it stages its rows and commits afterwards; the editor reads       *)
(* is_locked and commits the new type afterwards.  An INSERT of a value    *)
(* takes no lock that the UPDATE of field_type waits for.                  *)

ValueWriter == 1
TypeEditor == 2
SharedField == 1
SharedEventType == 1

\* The value writer runs its handler up to db.commit(): the outcome is the
\* one the handler computes from the definitions committed now.
StageValues ==
    /\ writers[ValueWriter].pc = "start"
    /\ LET r == IF owners[SharedOwner].exists
                THEN update_plant_event(DB, SharedOwner, None, Some(writers[ValueWriter].sub))
                ELSE create_plant_event(DB, SharedOwner, SharedEventType,
                                        writers[ValueWriter].sub)
       IN  writers' = [writers EXCEPT
              ![ValueWriter].pc = IF Succeeded(r) THEN "staged" ELSE "rejected",
              ![ValueWriter].session = r.db]
    /\ UNCHANGED <<kind, theme, scopes, fields, owners, values, validation>>

\* db.commit() of the value writer: the event and the staged rows.
CommitValues ==
    /\ writers[ValueWriter].pc = "staged"
    /\ LET outcome == IF /\ writers[ValueWriter].isolation = "serializable"
                         /\ writers[ValueWriter].stale
                      THEN "failed" ELSE "committed"
           session == writers[ValueWriter].session
       IN  /\ owners' = IF outcome = "committed" THEN session.owners ELSE owners
           /\ values' = IF outcome = "committed" THEN session.values ELSE values
           /\ writers' = [writers EXCEPT
                 ![ValueWriter].pc = outcome,
                 ![TypeEditor].stale =
                     \/ @
                     \/ /\ outcome = "committed"
                        /\ writers[TypeEditor].pc = "checked"
                        /\ \E row \in BagToSet(session.values) : row.field_id = SharedField]
    /\ UNCHANGED <<kind, theme, scopes, fields, validation>>

\* The editor reads field.is_locked.
CheckLocked ==
    /\ writers[TypeEditor].pc = "start"
    /\ writers' = [writers EXCEPT ![TypeEditor].pc =
          IF update_event_type_field(DB, SharedField, writers[TypeEditor].u).status = 400
          THEN "rejected" ELSE "checked"]
    /\ UNCHANGED <<kind, theme, scopes, fields, owners, values, validation>>

\* setattr(field, "field_type", value) and db.commit() of the editor.
CommitType ==
    /\ writers[TypeEditor].pc = "checked"
    /\ LET outcome == IF /\ writers[TypeEditor].isolation = "serializable"
                         /\ writers[TypeEditor].stale
                      THEN "failed" ELSE "committed"
       IN  /\ fields' = IF outcome = "committed"
                        THEN [fields EXCEPT ![SharedField] =
                                 ApplyFieldUpdate(@, writers[TypeEditor].u)]
                        ELSE fields
           /\ writers' = [writers EXCEPT
                 ![TypeEditor].pc = outcome,
                 ![ValueWriter].stale =
                     \/ @
                     \/ /\ outcome = "committed"
                        /\ writers[ValueWriter].pc = "staged"
                        /\ \E row \in BagToSet(writers[ValueWriter].session.values) :
                              row.field_id = SharedField]
    /\ UNCHANGED <<kind, theme, scopes, owners, values, validation>>

\* An event type with the field F and a second field, an event of it that
\* exists (with the values an update has left) or is about to be created.
InitConcurrentRetype ==
    /\ kind = "event"
    /\ theme = "naming"
    /\ scopes = [s \in ScopeIds |-> "active"]
    /\ \E t \in FieldType :
          fields = <<NewField(SharedEventType,
                        [field_name |-> FieldNames[1], field_type |-> t,
                         is_required |-> FALSE, constraints |-> Unbounded]),
                     NewField(SharedEventType,
                        [field_name |-> FieldNames[2], field_type |-> FieldType_NUMBER,
                         is_required |-> FALSE, constraints |-> Unbounded])>>
    /\ \E present \in BOOLEAN :
          owners = [o \in OwnerIds |->
                       IF o = SharedOwner /\ present
                       THEN [exists |-> TRUE, scope |-> SharedEventType]
                       ELSE NoOwner]
    /\ \E sub \in Subs :
          LET db0 == [scopes |-> scopes, fields |-> fields, owners |-> owners,
                      values |-> EmptyBag]
          IN  values = IF owners[SharedOwner].exists
                       THEN update_plant_event(db0, SharedOwner, None, Some(sub)).db.values
                       ELSE EmptyBag
    /\ \E level \in Isolations, sub \in Subs, t \in FieldType :
          writers = [w \in Writers |->
                       IF w = ValueWriter
                       THEN [pc |-> "start", sub |-> sub, session |-> DB,
                             isolation |-> level, stale |-> FALSE]
                       ELSE [pc |-> "start",
                             u |-> [field_name |-> None, field_type |-> Some(t),
                                    is_required |-> None, display_order |-> None,
                                    constraints |-> None],
                             isolation |-> level, stale |-> FALSE]]
    /\ validation = <<>>

NextConcurrentRetype ==
    \/ StageValues
    \/ CommitValues
    \/ CheckLocked
    \/ CommitType

SpecConcurrentRetype == InitConcurrentRetype /\ [][NextConcurrentRetype]_vars

\* C30: however a value write for event-type field F and a concurrent change
\* of F's field_type interleave, no committed value of F has its populated
\* column disagree with F's field_type.
C30_ConcurrentRetypeKeepsColumns ==
    \A row \in BagToSet(values) :
        row.field_id = SharedField =>
            IF fields[SharedField].field_type = FieldType_STRING
            THEN row.value_string # None /\ row.value_number = None
            ELSE row.value_number # None /\ row.value_string = None

====
